---------------------------- MODULE Spec2Model ----------------------------
(***************************************************************************)
(* AutoBooks: the rule store (src/src/rules.py), the confidence scorer     *)
(* (src/src/confidence_scorer.py) and the classification pipeline          *)
(* (src/src/agent.py).                                                     *)
(*                                                                         *)
(* Strings are sequences of one-character strings, so that lower(),        *)
(* strip() and the substring test `kw in text` are computed, not assumed.  *)
(***************************************************************************)
EXTENDS Integers, Sequences, FiniteSets, TLC

(***************************************************************************)
(* Bounds of the model.                                                    *)
(***************************************************************************)
NumWorkers == 2

Workers == 1 .. NumWorkers

None == "none"

(***************************************************************************)
(* Strings.                                                                *)
(***************************************************************************)
UpperLetters ==
  <<"A", "B", "C", "D", "E", "F", "G", "H", "I", "J", "K", "L", "M",
    "N", "O", "P", "Q", "R", "S", "T", "U", "V", "W", "X", "Y", "Z">>

LowerLetters ==
  <<"a", "b", "c", "d", "e", "f", "g", "h", "i", "j", "k", "l", "m",
    "n", "o", "p", "q", "r", "s", "t", "u", "v", "w", "x", "y", "z">>

\* str.lower() on one character
LowerChar(c) ==
  IF \E i \in DOMAIN UpperLetters : UpperLetters[i] = c
    THEN LowerLetters[CHOOSE i \in DOMAIN UpperLetters : UpperLetters[i] = c]
    ELSE c

\* str.lower()
Lower(s) == [i \in DOMAIN s |-> LowerChar(s[i])]

IsSpace(c) == c = " "

RECURSIVE LStrip(_)
LStrip(s) == IF s # << >> /\ IsSpace(Head(s)) THEN LStrip(Tail(s)) ELSE s

RECURSIVE RStrip(_)
RStrip(s) ==
  IF s # << >> /\ IsSpace(s[Len(s)]) THEN RStrip(SubSeq(s, 1, Len(s) - 1)) ELSE s

\* str.strip()
Strip(s) == RStrip(LStrip(s))

\* Python's `sub in text` on strings
Contains(text, sub) ==
  \E i \in 0 .. (Len(text) - Len(sub)) : SubSeq(text, i + 1, i + Len(sub)) = sub

(***************************************************************************)
(* Vendor names and keywords used as inputs.                               *)
(***************************************************************************)
VAcme == <<"A", "c", "m", "e">>
VAcmeUpper == <<"A", "C", "M", "E">>
VZen == <<"Z", "e", "n">>

Vendors == {VAcme, VAcmeUpper, VZen}

KwRent == <<"r", "e", "n", "t">>
KwFees == <<"f", "e", "e", "s">>
KwMisc == <<"m", "i", "s", "c">>
KwBlank == <<" ">>

(***************************************************************************)
(* models.Rule                                                             *)
(***************************************************************************)
\* " (Payable)"
PayableSuffix == <<" ", "(", "P", "a", "y", "a", "b", "l", "e", ")">>

\* Rule(...) as a record of its fields
MkRule(v, kws, debit, tds, at, n) ==
  [vendor |-> v, keywords |-> kws, debit_account |-> debit,
   credit_account |-> v \o PayableSuffix,
   tds_applicable |-> tds, learned_at |-> at, applied_count |-> n]

\* Rule(**rule_data): the field constraints (applied_count >= 0) and
\* validate_keywords (every keyword a non-blank string)
ValidRule(e) ==
  /\ e.applied_count >= 0
  /\ \A i \in DOMAIN e.keywords : Strip(e.keywords[i]) # << >>

\* rules a caller may pass to save_rule
RuleAcme == MkRule(VAcme, <<KwRent>>, "Rent Expense", TRUE, 1, 1)
RuleAcmeUpper == MkRule(VAcmeUpper, <<KwFees>>, "Professional Fees", FALSE, 2, 1)
RuleZen == MkRule(VZen, <<KwFees, KwMisc>>, "Miscellaneous Expense", FALSE, 3, 0)

NewRules == {RuleAcme, RuleAcmeUpper, RuleZen}

\* a stored record that fails Rule validation (blank keyword)
BadEntry == MkRule(VZen, <<KwBlank>>, "Rent Expense", FALSE, 1, 0)

(***************************************************************************)
(* The backing file rules.json.  A file is missing, holds text that is not *)
(* JSON, or holds a JSON value; of a JSON value the model keeps what       *)
(* load_rules looks at: whether it is an object, and what its "rules"      *)
(* member is.                                                              *)
(***************************************************************************)
Missing == [kind |-> "missing", rules |-> << >>]
Garbage == [kind |-> "garbage", rules |-> << >>]
NonObject == [kind |-> "nonobject", rules |-> << >>]
NoRulesKey == [kind |-> "norules", rules |-> << >>]
RulesNotIterable == [kind |-> "noniterable", rules |-> << >>]
RulesFile(entries) == [kind |-> "list", rules |-> entries]

\* _ensure_file_exists: json.dump({"rules": []})
FreshFile == RulesFile(<< >>)

\* what rules.json may hold when the RulesManager is constructed: the file
\* is created only when it does not exist, an existing one is left as it is
InitialFiles ==
  { FreshFile,
    RulesFile(<<RuleAcme>>),
    RulesFile(<<RuleAcme, RuleAcmeUpper>>),
    RulesFile(<<RuleAcme, BadEntry, RuleZen>>),
    Garbage, NonObject, NoRulesKey, RulesNotIterable }

(***************************************************************************)
(* Python floats.  A float in [0, 2) is kept exactly, as the integer       *)
(* x * 2^55 split in two limbs <<hi, lo>> with x * 2^55 = hi * 2^28 + lo;  *)
(* every value the scorer handles is a multiple of 2^-55.  FAdd is IEEE    *)
(* 754 double addition: the exact sum rounded to 53 significant bits,      *)
(* ties to even.                                                           *)
(***************************************************************************)
LimbBase == 2 ^ 28

\* float literals of confidence_scorer.py and config.py
F_0 == <<0, 0>>
F_035 == <<46976204, 214748364>>
F_030 == <<40265318, 107374182>>
F_020 == <<26843545, 161061274>>
F_015 == <<20132659, 53687091>>
F_1 == <<2 ^ 27, 0>>
\* config.CONFIDENCE_HIGH = 0.75, config.CONFIDENCE_MEDIUM = 0.50
CONFIDENCE_HIGH == <<3 * 2 ^ 25, 0>>
CONFIDENCE_MEDIUM == <<2 ^ 26, 0>>
\* extraction confidences 3/5 and 4/5
F_06 == <<80530636, 214748364>>
F_08 == <<107374182, 107374184>>

\* a <= b on floats
FLeq(a, b) == a[1] < b[1] \/ (a[1] = b[1] /\ a[2] <= b[2])

\* the spacing of doubles around a value with high limb hi, in units 2^-55
Ulp(hi) ==
  IF hi >= 2 ^ 27 THEN 8
  ELSE IF hi >= 2 ^ 26 THEN 4
  ELSE IF hi >= 2 ^ 25 THEN 2
  ELSE 1

\* the value of a one-element set (used to compute an operand once)
Only(S) == CHOOSE x \in S : TRUE

\* a + b on two float values
FAddValues(a, b) ==
  LET lo0 == a[2] + b[2]
      hi == a[1] + b[1] + (lo0 \div LimbBase)
      lo == lo0 % LimbBase
      u == Ulp(hi)
      r == lo % u
      q == lo \div u
      lo2 == IF 2 * r < u \/ (2 * r = u /\ q % 2 = 0) THEN q * u ELSE (q + 1) * u
  IN  IF lo2 >= LimbBase THEN <<hi + 1, lo2 - LimbBase>> ELSE <<hi, lo2>>

\* a + b on floats
FAdd(a, b) == Only({FAddValues(x, y) : x \in {a}, y \in {b}})

\* min(a, b) on floats
FMin(a, b) == IF FLeq(a, b) THEN a ELSE b

(***************************************************************************)
(* Python floats holding money.  A float x >= 0 is kept exactly, as the    *)
(* integer x * 2^52 in five limbs <<m4, m3, m2, m1, m0>> of 24 bits, the   *)
(* most significant first.  Every operation computes the exact result and  *)
(* rounds it to 53 significant bits, ties to even, as IEEE 754 double      *)
(* arithmetic does.  A double of 2 or more is a multiple of 2^-51, so the  *)
(* values of 2 or more are represented without loss, up to 2^68; the       *)
(* smaller ones that occur here (0 and exact quotients) are, too: the      *)
(* amounts used as inputs are 40 or more, so that no inexact result is     *)
(* below 2.                                                                *)
(***************************************************************************)
MBase == 2 ^ 24

M_0 == <<0, 0, 0, 0, 0>>

\* the number of binary digits of n
BitLen(n) == IF n = 0 THEN 0 ELSE CHOOSE k \in 1 .. 31 : 2 ^ (k - 1) <= n /\ n \div 2 < 2 ^ (k - 1)

\* limbs with carries propagated
MNorm(t) ==
  LET c1 == t[4] + (t[5] \div MBase)
      c2 == t[3] + (c1 \div MBase)
      c3 == t[2] + (c2 \div MBase)
  IN  <<t[1] + (c3 \div MBase), c3 % MBase, c2 % MBase, c1 % MBase, t[5] % MBase>>

\* the number of binary digits of x * 2^52
MBits(x) ==
  IF x = M_0 THEN 0
  ELSE LET i == CHOOSE k \in 1 .. 5 : x[k] > 0 /\ \A j \in 1 .. k - 1 : x[j] = 0
       IN  24 * (5 - i) + BitLen(x[i])

\* round the exact value x (with something more below its last digit when
\* sticky) to 53 significant bits, ties to even
MRoundValue(x, sticky) ==
  IF MBits(x) <= 53 THEN x
  ELSE LET p == MBits(x) - 53
           i == 5 - (p \div 24)
           u == 2 ^ (p % 24)
           rem == x[i] % u
           \* the digit below the last one kept, and whether more follows it
           half == IF u > 1 THEN 2 * rem >= u ELSE 2 * x[i + 1] >= MBase
           more == IF u > 1
                     THEN 2 * rem # u \/ \E k \in i + 1 .. 5 : x[k] # 0
                     ELSE 2 * x[i + 1] # MBase \/ \E k \in i + 2 .. 5 : x[k] # 0
           up == half /\ (more \/ sticky \/ (x[i] \div u) % 2 = 1)
       IN  MNorm([k \in 1 .. 5 |->
                    IF k < i THEN x[k]
                    ELSE IF k = i THEN x[i] - rem + (IF up THEN u ELSE 0)
                    ELSE 0])

MRound(x, sticky) == Only({MRoundValue(v, sticky) : v \in {x}})

\* a <= b
MLeq(a, b) ==
  \/ a = b
  \/ \E i \in 1 .. 5 : a[i] < b[i] /\ \A j \in 1 .. i - 1 : a[j] = b[j]

\* limbs of x * k for a small integer k
MTimes(x, k) == MNorm([i \in 1 .. 5 |-> x[i] * k])

\* x / d for a small integer d: the limbs of the quotient, then the remainder
MQuotient(x, d) ==
  LET t2 == (x[1] % d) * MBase + x[2]
      t3 == (t2 % d) * MBase + x[3]
      t4 == (t3 % d) * MBase + x[4]
      t5 == (t4 % d) * MBase + x[5]
  IN  <<x[1] \div d, t2 \div d, t3 \div d, t4 \div d, t5 \div d, t5 % d>>

\* float division x / d
MDivValue(x, d) ==
  Only({MRound(<<q[1], q[2], q[3], q[4], q[5]>>, q[6] # 0) : q \in {MQuotient(x, d)}})

MDiv(x, d) == Only({MDivValue(v, d) : v \in {x}})

\* float multiplication x * k
MMul(x, k) == Only({MRound(MTimes(v, k), FALSE) : v \in {x}})

\* exact a - b for a >= b
MMinus(a, b) ==
  LET d5 == a[5] - b[5]
      b5 == IF d5 < 0 THEN 1 ELSE 0
      d4 == a[4] - b[4] - b5
      b4 == IF d4 < 0 THEN 1 ELSE 0
      d3 == a[3] - b[3] - b4
      b3 == IF d3 < 0 THEN 1 ELSE 0
      d2 == a[2] - b[2] - b3
      b2 == IF d2 < 0 THEN 1 ELSE 0
  IN  <<a[1] - b[1] - b2, d2 + b2 * MBase, d3 + b3 * MBase,
        d4 + b4 * MBase, d5 + b5 * MBase>>

\* float subtraction a - b for a >= b
MSub(a, b) == Only({MRound(MMinus(x, y), FALSE) : x \in {a}, y \in {b}})

\* float addition a + b
MAdd(a, b) ==
  Only({MRound(MNorm([i \in 1 .. 5 |-> x[i] + y[i]]), FALSE) : x \in {a}, y \in {b}})

\* float(n) for a small integer n
MFromInt(n) == MNorm(<<0, 0, n * 16, 0, 0>>)

\* the exact value of a string of decimal digits
RECURSIVE DigitsValue(_)
DigitsValue(s) ==
  IF s = << >> THEN M_0
  ELSE LET v == MTimes(DigitsValue(SubSeq(s, 1, Len(s) - 1)), 10)
           d == MFromInt(s[Len(s)])
       IN  MNorm([i \in 1 .. 5 |-> v[i] + d[i]])

\* float(s) for a string of decimal digits
MFromDigits(s) == MRound(DigitsValue(s), FALSE)

\* the characters InvoiceExtractor._clean_amount removes from the matched
\* text of an amount, as far as the amount patterns can match them
RemovedChars == {",", "."}

Digits == <<"0", "1", "2", "3", "4", "5", "6", "7", "8", "9">>

\* int(c) for a digit character
DigitOf(c) == (CHOOSE k \in 1 .. 10 : Digits[k] = c) - 1

IsKept(c) == c \notin RemovedChars

\* InvoiceExtractor._clean_amount: float(cleaned), cleaned being the matched
\* text without its commas and without its decimal point
CleanAmount(amount_str) ==
  LET cleaned == SelectSeq(amount_str, IsKept)
  IN  MFromDigits([i \in 1 .. Len(cleaned) |-> DigitOf(cleaned[i])])

(***************************************************************************)
(* ConfidenceScorer                                                        *)
(***************************************************************************)
\* CATEGORY_KEYWORDS, in the dict's insertion order
Keywords_rent ==
  << <<"r", "e", "n", "t">>,
     <<"l", "e", "a", "s", "e">>,
     <<"a", "c", "c", "o", "m", "m", "o", "d", "a", "t", "i", "o", "n">>,
     <<"p", "r", "e", "m", "i", "s", "e", "s">>,
     <<"r", "e", "n", "t", "a", "l">> >>

Keywords_consultancy ==
  << <<"c", "o", "n", "s", "u", "l", "t">>,
     <<"p", "r", "o", "f", "e", "s", "s", "i", "o", "n", "a", "l">>,
     <<"c", "o", "n", "s", "u", "l", "t", "i", "n", "g">>,
     <<"f", "e", "e", "s">>,
     <<"s", "e", "r", "v", "i", "c", "e", "s">>,
     <<"a", "d", "v", "i", "c", "e">> >>

Keywords_salary ==
  << <<"s", "a", "l", "a", "r", "y">>,
     <<"w", "a", "g", "e", "s">>,
     <<"r", "e", "m", "u", "n", "e", "r", "a", "t", "i", "o", "n">>,
     <<"c", "o", "m", "p", "e", "n", "s", "a", "t", "i", "o", "n">>,
     <<"p", "a", "y", "r", "o", "l", "l">> >>

Keywords_contract ==
  << <<"c", "o", "n", "t", "r", "a", "c", "t">>,
     <<"c", "a", "t", "e", "r", "i", "n", "g">>,
     <<"s", "u", "p", "p", "l", "y">>,
     <<"m", "a", "i", "n", "t", "e", "n", "a", "n", "c", "e">>,
     <<"r", "e", "p", "a", "i", "r">> >>

CATEGORY_KEYWORDS ==
  << [category |-> "rent", keywords |-> Keywords_rent],
     [category |-> "consultancy", keywords |-> Keywords_consultancy],
     [category |-> "salary", keywords |-> Keywords_salary],
     [category |-> "contract", keywords |-> Keywords_contract] >>

\* settings.tds_rates.get(category, 0), in hundredths of a percent
TdsRate(category) ==
  CASE category = "rent" -> 1000
    [] category = "salary" -> 500
    [] category = "consultancy" -> 1000
    [] category = "contract" -> 500
    [] OTHER -> 0

\* any(keyword in text for keyword in keywords)
AnyKeywordIn(keywords, text) ==
  \E i \in DOMAIN keywords : Contains(text, keywords[i])

\* a guess_category in which the last category with a hit wins
GuessCategoryLast(text) ==
  LET text_lower == Lower(text)
      hits == {i \in DOMAIN CATEGORY_KEYWORDS :
                 AnyKeywordIn(CATEGORY_KEYWORDS[i].keywords, text_lower)}
  IN  IF hits = {} THEN "SUSPENSE"
      ELSE CATEGORY_KEYWORDS[CHOOSE i \in hits : \A j \in hits : i >= j].category

\* ConfidenceScorer.guess_category
GuessCategory(text) ==
  LET text_lower == Lower(text)
      hits == {i \in DOMAIN CATEGORY_KEYWORDS :
                 AnyKeywordIn(CATEGORY_KEYWORDS[i].keywords, text_lower)}
  IN  IF hits = {} THEN "SUSPENSE"
      ELSE CATEGORY_KEYWORDS[CHOOSE i \in hits : \A j \in hits : i <= j].category

\* the rules whose vendor is the invoice's, ignoring case
VendorRules(invoice, rules) ==
  SelectSeq(rules, LAMBDA r : Lower(r.vendor) = Lower(invoice.vendor))

\* [kw.lower() for kw in rule.keywords]
Lower2(kws) == [i \in DOMAIN kws |-> Lower(kws[i])]

\* a keyword test that looks at the keywords of every rule, whatever its
\* vendor
KeywordsMatchAnyVendor(invoice, rules) ==
  LET invoice_text == Lower(invoice.vendor \o <<" ">> \o invoice.raw_text)
  IN  \E i \in DOMAIN rules : AnyKeywordIn(Lower2(rules[i].keywords), invoice_text)

\* a keyword test that looks at the first rule of the vendor only
KeywordsMatchFirst(invoice, rules) ==
  LET invoice_text == Lower(invoice.vendor \o <<" ">> \o invoice.raw_text)
      vendor_rules == VendorRules(invoice, rules)
  IN  /\ vendor_rules # << >>
      /\ AnyKeywordIn(Lower2(vendor_rules[1].keywords), invoice_text)

\* step 2 of calculate: some vendor rule has a keyword in
\* f"{invoice.vendor} {invoice.raw_text}".lower()
KeywordsMatch(invoice, rules) ==
  LET invoice_text == Lower(invoice.vendor \o <<" ">> \o invoice.raw_text)
      vendor_rules == VendorRules(invoice, rules)
  IN  \E i \in DOMAIN vendor_rules :
        AnyKeywordIn(Lower2(vendor_rules[i].keywords), invoice_text)

\* step 3 of calculate
AmountInRange(invoice, rules) ==
  /\ VendorRules(invoice, rules) # << >>
  /\ invoice.amount # M_0
  /\ MLeq(MFromInt(100), invoice.amount)
  /\ MLeq(invoice.amount, MFromInt(1000000))

\* invoice.tds_percentage is truthy: neither None nor 0.0
TdsDeclared(invoice) ==
  invoice.tds_percentage # << >> /\ invoice.tds_percentage[1] # 0

Abs(x) == IF x < 0 THEN -x ELSE x

\* step 4 of calculate; the tolerance 0.1 is 10 hundredths of a percent
TdsMatches(invoice) ==
  LET expected_tds == TdsRate(GuessCategory(invoice.raw_text))
  IN  \/ TdsDeclared(invoice) /\ Abs(invoice.tds_percentage[1] - expected_tds) < 10
      \/ ~TdsDeclared(invoice) /\ expected_tds = 0

\* ConfidenceScorer.calculate
Calculate(invoice, rules) ==
  LET s1 == IF VendorRules(invoice, rules) # << >> THEN FAdd(F_0, F_035) ELSE F_0
      s2 == IF KeywordsMatch(invoice, rules) THEN FAdd(s1, F_030) ELSE s1
      s3 == IF AmountInRange(invoice, rules) THEN FAdd(s2, F_020) ELSE s2
      s4 == IF TdsMatches(invoice) THEN FAdd(s3, F_015) ELSE s3
  IN  FMin(s4, F_1)

\* threading.Lock(): not held
Free == 0

VARIABLES
  file,      \* contents of rules.json
  lock,      \* RulesManager._lock: the worker holding it, or Free
  pc,        \* per worker: where its thread is
  caller,    \* per worker: the method that called load_rules
  arg,       \* per worker: the rule passed to save_rule
  varg,      \* per worker: the vendor passed to increment_usage or find_matching
  karg,      \* per worker: the keywords passed to find_matching
  result,    \* per worker: outcome of its last completed call
  inv,       \* process_invoice: the extracted invoice
  conf,      \* process_invoice: confidence
  route,     \* the tiers the document went through, in order
  patterns,  \* process_invoice: similar_patterns
  category,  \* the category the document was given
  asked,     \* the reviewer was prompted for this document
  txn,       \* the Transaction built for the document, if any
  outcome,   \* how process_invoice ended for the document
  chunker,   \* TextChunker and the locals of its chunk_text call
  orch,      \* AutoBooksOrchestrator: its fields, the inbox, where run() is
  rag        \* self_rag_agent.SelfRAGAgent: learned_rules, its last document

storeVars == <<file, lock, pc, caller, arg, varg, karg, result>>

pipeVars == <<inv, conf, route, patterns, category, asked, txn, outcome>>

\* the components beside the rule store and the agent
extVars == <<chunker, orch, rag>>

vars == <<storeVars, pipeVars, extVars>>

NoResult == [op |-> None, kind |-> None, value |-> << >>, seen |-> None]

\* a load_rules that gives up at the first record that fails validation
\* and returns the rules before it
LoadOutcomeUntilBad(f) ==
  CASE f.kind = "missing" -> [kind |-> "returned", value |-> << >>]
    [] f.kind = "garbage" -> [kind |-> "returned", value |-> << >>]
    [] f.kind = "nonobject" -> [kind |-> "raised", value |-> << >>]
    [] f.kind = "norules" -> [kind |-> "returned", value |-> << >>]
    [] f.kind = "noniterable" -> [kind |-> "raised", value |-> << >>]
    [] OTHER ->
         LET bad == {i \in DOMAIN f.rules : ~ValidRule(f.rules[i])}
             n == IF bad = {} THEN Len(f.rules)
                  ELSE (CHOOSE i \in bad : \A j \in bad : i <= j) - 1
         IN  [kind |-> "returned", value |-> SubSeq(f.rules, 1, n)]

(***************************************************************************)
(* RulesManager.load_rules                                                 *)
(***************************************************************************)
\* the body of load_rules on file contents f: what it returns or raises.
\*   open() of a missing file: FileNotFoundError, caught, []
\*   json.load of text that is not JSON: JSONDecodeError, caught, []
\*   a JSON value that is no object: data.get raises AttributeError, which
\*     no handler catches
\*   an object without "rules": data.get("rules", []) is []
\*   "rules" holding a number, true or null: the for loop raises TypeError,
\*     which no handler catches
\*   a list: every entry that Rule(**rule_data) accepts, in file order
LoadOutcome(f) ==
  CASE f.kind = "missing" -> [kind |-> "returned", value |-> << >>]
    [] f.kind = "garbage" -> [kind |-> "returned", value |-> << >>]
    [] f.kind = "nonobject" -> [kind |-> "raised", value |-> << >>]
    [] f.kind = "norules" -> [kind |-> "returned", value |-> << >>]
    [] f.kind = "noniterable" -> [kind |-> "raised", value |-> << >>]
    [] OTHER -> [kind |-> "returned", value |-> SelectSeq(f.rules, ValidRule)]

\* a lock that never makes a thread wait
CanAcquireAlways(w) == TRUE

\* `with self._lock:` can be entered: threading.Lock is not reentrant, so
\* also the thread that holds it waits
CanAcquire(w) == lock = Free

\* a caller invokes load_rules()
StartLoad(w) ==
  /\ pc[w] = "idle"
  /\ pc' = [pc EXCEPT ![w] = "load_acquire"]
  /\ caller' = [caller EXCEPT ![w] = "top"]
  /\ UNCHANGED <<file, lock, arg, varg, karg, result>>
  /\ UNCHANGED pipeVars
  /\ UNCHANGED extVars

\* load_rules line 35: with self._lock
LoadAcquire(w) ==
  /\ pc[w] = "load_acquire"
  /\ CanAcquire(w)
  /\ lock' = w
  /\ pc' = [pc EXCEPT ![w] = "load_read"]
  /\ UNCHANGED <<file, caller, arg, varg, karg, result>>
  /\ UNCHANGED pipeVars
  /\ UNCHANGED extVars

\* load_rules lines 36-56: read and parse the file, leave the with block
\* (the lock is released on return and on raise alike)
LoadRead(w) ==
  /\ pc[w] = "load_read"
  /\ lock' = Free
  /\ result' = [result EXCEPT ![w] =
       [op |-> "load", kind |-> LoadOutcome(file).kind,
        value |-> LoadOutcome(file).value, seen |-> file.kind]]
  /\ pc' = [pc EXCEPT ![w] =
       IF caller[w] = "process"
         THEN IF LoadOutcome(file).kind = "returned"
                THEN "proc_score" ELSE "proc_raise"
       ELSE IF caller[w] = "find" /\ LoadOutcome(file).kind = "returned"
         THEN "find_scan"
         ELSE "idle"]
  /\ UNCHANGED <<file, caller, arg, varg, karg>>
  /\ UNCHANGED pipeVars
  /\ UNCHANGED extVars

(***************************************************************************)
(* RulesManager.save_rule                                                  *)
(***************************************************************************)
\* a caller invokes save_rule(rule)
StartSave(w, r) ==
  /\ pc[w] = "idle"
  /\ pc' = [pc EXCEPT ![w] = "save_acquire"]
  /\ arg' = [arg EXCEPT ![w] = r]
  /\ UNCHANGED <<file, lock, caller, varg, karg, result>>
  /\ UNCHANGED pipeVars
  /\ UNCHANGED extVars

\* save_rule line 65: with self._lock
SaveAcquire(w) ==
  /\ pc[w] = "save_acquire"
  /\ CanAcquire(w)
  /\ lock' = w
  /\ pc' = [pc EXCEPT ![w] = "save_locked"]
  /\ UNCHANGED <<file, caller, arg, varg, karg, result>>
  /\ UNCHANGED pipeVars
  /\ UNCHANGED extVars

\* a save_rule that opens rules.json for writing before it loads the rules
SaveCallLoadTruncating(w) ==
  /\ pc[w] = "save_locked"
  /\ pc' = [pc EXCEPT ![w] = "load_acquire"]
  /\ caller' = [caller EXCEPT ![w] = "save"]
  /\ file' = FreshFile
  /\ UNCHANGED <<lock, arg, varg, karg, result>>
  /\ UNCHANGED pipeVars
  /\ UNCHANGED extVars

\* save_rule line 67: rules = self.load_rules(), called with the lock held.
\* The thread now stands at load_rules' own `with self._lock`.
SaveCallLoad(w) ==
  /\ pc[w] = "save_locked"
  /\ pc' = [pc EXCEPT ![w] = "load_acquire"]
  /\ caller' = [caller EXCEPT ![w] = "save"]
  /\ UNCHANGED <<file, lock, arg, varg, karg, result>>
  /\ UNCHANGED pipeVars
  /\ UNCHANGED extVars

(***************************************************************************)
(* RulesManager.increment_usage                                            *)
(***************************************************************************)
\* a caller invokes increment_usage(vendor)
StartIncr(w, v) ==
  /\ pc[w] = "idle"
  /\ pc' = [pc EXCEPT ![w] = "incr_acquire"]
  /\ varg' = [varg EXCEPT ![w] = v]
  /\ UNCHANGED <<file, lock, caller, arg, karg, result>>
  /\ UNCHANGED pipeVars
  /\ UNCHANGED extVars

\* increment_usage line 144: with self._lock
IncrAcquire(w) ==
  /\ pc[w] = "incr_acquire"
  /\ CanAcquire(w)
  /\ lock' = w
  /\ pc' = [pc EXCEPT ![w] = "incr_locked"]
  /\ UNCHANGED <<file, caller, arg, varg, karg, result>>
  /\ UNCHANGED pipeVars
  /\ UNCHANGED extVars

\* increment_usage line 145: rules = self.load_rules(), with the lock held
IncrCallLoad(w) ==
  /\ pc[w] = "incr_locked"
  /\ pc' = [pc EXCEPT ![w] = "load_acquire"]
  /\ caller' = [caller EXCEPT ![w] = "incr"]
  /\ UNCHANGED <<file, lock, arg, varg, karg, result>>
  /\ UNCHANGED pipeVars
  /\ UNCHANGED extVars

(***************************************************************************)
(* RulesManager.find_matching                                              *)
(***************************************************************************)
\* sum(1 for kw in keywords_lower if kw in rule_keywords_lower)
KeywordMatches(keywords, rule) ==
  Cardinality({i \in DOMAIN keywords :
                 \E j \in DOMAIN rule.keywords :
                   Lower(keywords[i]) = Lower(rule.keywords[j])})

\* the least element of a non-empty set of indices, 0 for the empty set
FirstOf(hits) ==
  IF hits = {} THEN 0 ELSE CHOOSE i \in hits : \A j \in hits : i <= j

\* a find_matching that is content with one matching keyword
FindMatchingOne(rules, vendor, keywords) ==
  LET exact == FirstOf({i \in DOMAIN rules :
                          Lower(rules[i].vendor) = Lower(vendor)})
      fuzzy == FirstOf({i \in DOMAIN rules :
                          KeywordMatches(keywords, rules[i]) >= 1})
  IN  IF exact # 0 THEN <<rules[exact]>>
      ELSE IF keywords # << >> /\ fuzzy # 0 THEN <<rules[fuzzy]>>
      ELSE << >>

\* find_matching lines 109-126 on the loaded rules: the first rule with the
\* vendor ignoring case; failing that, when keywords are given, the first
\* rule with at least 2 matching keywords; an Optional
FindMatching(rules, vendor, keywords) ==
  LET exact == FirstOf({i \in DOMAIN rules :
                          Lower(rules[i].vendor) = Lower(vendor)})
      fuzzy == FirstOf({i \in DOMAIN rules :
                          KeywordMatches(keywords, rules[i]) >= 2})
  IN  IF exact # 0 THEN <<rules[exact]>>
      ELSE IF keywords # << >> /\ fuzzy # 0 THEN <<rules[fuzzy]>>
      ELSE << >>

\* keyword lists a caller may pass to find_matching (<< >> for None)
FindKeywords == {<< >>, <<KwFees, KwFees>>, <<KwFees, KwMisc>>}

\* a caller invokes find_matching(vendor, keywords); line 107 calls
\* load_rules()
StartFind(w, v, kws) ==
  /\ pc[w] = "idle"
  /\ pc' = [pc EXCEPT ![w] = "load_acquire"]
  /\ caller' = [caller EXCEPT ![w] = "find"]
  /\ varg' = [varg EXCEPT ![w] = v]
  /\ karg' = [karg EXCEPT ![w] = kws]
  /\ UNCHANGED <<file, lock, arg, result>>
  /\ UNCHANGED pipeVars
  /\ UNCHANGED extVars

\* find_matching lines 109-126: scan the rules load_rules returned
FindScan(w) ==
  /\ pc[w] = "find_scan"
  /\ result' = [result EXCEPT ![w] =
       [op |-> "find", kind |-> "returned",
        value |-> FindMatching(result[w].value, varg[w], karg[w]),
        seen |-> result[w].seen]]
  /\ pc' = [pc EXCEPT ![w] = "idle"]
  /\ UNCHANGED <<file, lock, caller, arg, varg, karg>>
  /\ UNCHANGED pipeVars
  /\ UNCHANGED extVars

(***************************************************************************)
(* models.InvoiceFields and models.Transaction                             *)
(***************************************************************************)
\* an Optional value: << >> is None, <<x>> is x
Absent == << >>
Some(x) == <<x>>

\* raw texts: "Rent 10%", "Fees", "misc", "payroll", "Payroll fees"
TRent == <<"R", "e", "n", "t", " ", "1", "0", "%">>
TFees == <<"F", "e", "e", "s">>
TMisc == <<"m", "i", "s", "c">>
TPayroll == <<"p", "a", "y", "r", "o", "l", "l">>
TPayrollFees ==
  <<"P", "a", "y", "r", "o", "l", "l", " ", "f", "e", "e", "s">>

Texts == {TRent, TFees, TMisc, TPayroll, TPayrollFees}

\* vendor names as they appear on invoices
InvoiceVendors == {VAcmeUpper, VZen}

\* the text of an amount as the amount patterns match it
Amount60 == <<"6", "0">>
Amount50000 == <<"5", "0", ",", "0", "0", "0">>
Amount1999_99 == <<"1", ",", "9", "9", "9", ".", "9", "9">>
AmountHuge ==
  <<"6", "0", "0", "0", "0", "0", "0", "0", "0", "0", "0", "0", "0", "0", "0", "5">>

AmountStrings == {Amount60, Amount50000, Amount1999_99, AmountHuge}

\* the amounts of the invoices
Amounts == {CleanAmount(amount_str) : amount_str \in AmountStrings}

\* declared TDS percentages, in hundredths of a percent
TdsValues == {Absent, Some(0), Some(500), Some(1000)}

\* InvoiceFields as InvoiceExtractor.extract builds it; the extraction
\* confidence is the share of the five fields that were found
MkInvoice(v, a, t, text) ==
  [vendor |-> v, amount |-> a, date |-> "2024-12-20", tds_percentage |-> t,
   raw_text |-> text, confidence |-> IF t = Absent THEN F_06 ELSE F_08]

Invoices ==
  {MkInvoice(v, a, t, text) : v \in InvoiceVendors, a \in Amounts,
                              t \in TdsValues, text \in Texts}

\* SelfRAGAgent._calculate_tds: (amount * tds_rate) / 100 when the rate is
\* positive, else 0.0; the rates are the floats 5.0 and 10.0
CalculateTds(amount, cat) ==
  IF TdsRate(cat) > 0
    THEN MDiv(MMul(amount, TdsRate(cat) \div 100), 100)
    ELSE M_0

\* an account mapping without the fall-back to "other"
DebitAccountNoDefault(cat) ==
  CASE cat = "rent" -> "Rent Expense"
    [] cat = "consultancy" -> "Professional Fees"
    [] cat = "salary" -> "Salary Expense"
    [] cat = "contract" -> "Contract Expense"
    [] cat = "other" -> "Miscellaneous Expense"
    [] OTHER -> "Suspense"

\* account_mapping.get(category, account_mapping["other"])["debit"] and
\* SelfRAGAgent._get_debit_account
DebitAccount(cat) ==
  CASE cat = "rent" -> "Rent Expense"
    [] cat = "consultancy" -> "Professional Fees"
    [] cat = "salary" -> "Salary Expense"
    [] cat = "contract" -> "Contract Expense"
    [] OTHER -> "Miscellaneous Expense"

\* the Transaction record of _create_transaction, given the TDS amount
TransactionOf(invoice, cat, status, tds_amount) ==
  [date |-> invoice.date,
   vendor |-> invoice.vendor,
   debit_account |-> DebitAccount(cat),
   debit_amount |-> invoice.amount,
   credit_account |-> invoice.vendor \o PayableSuffix,
   credit_amount |-> MSub(invoice.amount, tds_amount),
   tds_account |-> IF tds_amount # M_0 THEN Some("TDS Payable") ELSE Absent,
   tds_amount |-> IF tds_amount # M_0 THEN Some(tds_amount) ELSE Absent,
   confidence |-> invoice.confidence,
   status |-> status]

\* SelfRAGAgent._create_transaction
CreateTransaction(invoice, cat, status) ==
  Only({TransactionOf(invoice, cat, status, tds_amount) :
          tds_amount \in {CalculateTds(invoice.amount, cat)}})

(***************************************************************************)
(* SelfRAGAgent._extract_keywords                                          *)
(***************************************************************************)
\* str.split(): the maximal runs of non-space characters
RECURSIVE Tokens(_, _)
Tokens(s, cur) ==
  IF s = << >> THEN (IF cur = << >> THEN << >> ELSE <<cur>>)
  ELSE IF IsSpace(Head(s))
    THEN (IF cur = << >> THEN << >> ELSE <<cur>>) \o Tokens(Tail(s), << >>)
    ELSE Tokens(Tail(s), Append(cur, Head(s)))

Split(s) == Tokens(s, << >>)

\* str.isalpha()
IsAlpha(word) ==
  /\ word # << >>
  /\ \A i \in DOMAIN word :
       \E j \in DOMAIN LowerLetters :
         word[i] = LowerLetters[j] \/ word[i] = UpperLetters[j]

Range(f) == {f[i] : i \in DOMAIN f}

\* CATEGORY_KEYWORDS.get(category, [])
CategoryKeywords(cat) ==
  IF \E i \in DOMAIN CATEGORY_KEYWORDS : CATEGORY_KEYWORDS[i].category = cat
    THEN CATEGORY_KEYWORDS[CHOOSE i \in DOMAIN CATEGORY_KEYWORDS :
                             CATEGORY_KEYWORDS[i].category = cat].keywords
    ELSE << >>

\* set(category_keywords + vendor_words)
KeywordSet(text, cat) ==
  Range(CategoryKeywords(cat))
    \cup {w \in Range(Split(Lower(text))) : Len(w) > 2 /\ IsAlpha(w)}

RECURSIVE SetToSeq(_)
SetToSeq(S) ==
  IF S = {} THEN << >>
  ELSE LET x == CHOOSE y \in S : TRUE IN <<x>> \o SetToSeq(S \ {x})

Min(a, b) == IF a <= b THEN a ELSE b

\* list(set(...))[:5]: the iteration order of a set of strings is not fixed
\* (string hashing is randomised per process), so any 5 of the elements
\* may be the ones kept
KeywordLists(text, cat) ==
  UNION { {SetToSeq(T) : T \in {T \in SUBSET S :
                                  Cardinality(T) = Min(5, Cardinality(S))}} :
          S \in {KeywordSet(text, cat)} }

\* settings.tds_applicable_categories
TdsApplicableCategories == {"rent", "salary", "professional", "contract"}

(***************************************************************************)
(* SelfRAGAgent.process_invoice, from the extracted invoice on             *)
(***************************************************************************)
\* the categories _ask_user can return
UserCategories == {"rent", "consultancy", "salary", "contract", "other"}

\* results of vector_store.query_similar: similarity_score is round(.., 3),
\* kept in thousandths
PatternEntries ==
  { [similarity_score |-> 800, category |-> "salary"],
    [similarity_score |-> 850, category |-> "consultancy"],
    [similarity_score |-> 900, category |-> "rent"],
    [similarity_score |-> 950, category |-> "travel"] }

\* query_similar(..., n_results=3)
NResults == 3

PatternResults ==
  UNION {[1 .. n -> PatternEntries] : n \in 0 .. NResults}

\* datetime.now()
Times == {1}

\* the thread running the agent
Agent == CHOOSE w \in Workers : \A v \in Workers : w <= v

NoInvoice == MkInvoice(VZen, CleanAmount(Amount60), Absent, TMisc)

(***************************************************************************)
(* InvoiceExtractor.extract, on what the patterns find in a text.          *)
(***************************************************************************)
\* texts of a declared TDS percentage as the tds_percentage patterns match
\* them
Tds10 == <<"1", "0">>
Tds10_5 == <<"1", "0", ".", "5">>

\* int(s) for a string of decimal digits
RECURSIVE IntOfDigits(_)
IntOfDigits(s) ==
  IF s = << >> THEN 0
  ELSE 10 * IntOfDigits(SubSeq(s, 1, Len(s) - 1)) + DigitOf(s[Len(s)])

\* _clean_amount on a percentage, in hundredths of a percent
CleanPercent(tds_str) == 100 * IntOfDigits(SelectSeq(tds_str, IsKept))

\* a date as the date patterns match it: three numbers and two separators,
\* the year being the number of four digits
MkDate(a, s1, b, s2, c) ==
  [first |-> a, sep1 |-> s1, second |-> b, sep2 |-> s2, third |-> c]

DateStrings ==
  { MkDate(20, "/", 12, "/", 2024),
    MkDate(12, "-", 20, "-", 2024),
    MkDate(2024, "-", 12, "-", 20),
    MkDate(31, "/", 31, "/", 2024),
    MkDate(30, "-", 2, "-", 2024),
    MkDate(20, "/", 12, "-", 2024) }

IsLeap(y) == (y % 4 = 0 /\ y % 100 # 0) \/ y % 400 = 0

DaysInMonth(y, m) ==
  IF m = 2 THEN (IF IsLeap(y) THEN 29 ELSE 28)
  ELSE IF m \in {4, 6, 9, 11} THEN 30 ELSE 31

ValidDate(y, m, d) == y >= 1 /\ m \in 1 .. 12 /\ d \in 1 .. DaysInMonth(y, m)

Pad2(n) == IF n < 10 THEN "0" \o ToString(n) ELSE ToString(n)

\* strftime('%Y-%m-%d'), for a year of four digits
FormatDate(y, m, d) == ToString(y) \o "-" \o Pad2(m) \o "-" \o Pad2(d)

\* InvoiceExtractor._parse_date: the formats are tried in the order
\* day-month-year, month-day-year, year-month-day, each with "/" or "-"
\* as both separators; None (Absent) when no format fits
ParseDate(date_str) ==
  LET a == date_str.first
      b == date_str.second
      c == date_str.third
  IN  IF date_str.sep1 # date_str.sep2 THEN Absent
      ELSE IF a < 100 /\ ValidDate(c, b, a) THEN Some(FormatDate(c, b, a))
      ELSE IF a < 100 /\ ValidDate(c, a, b) THEN Some(FormatDate(c, a, b))
      ELSE IF a >= 1000 /\ ValidDate(a, b, c) THEN Some(FormatDate(a, b, c))
      ELSE Absent

\* what _extract_field finds in a text: for each field the matched text, or
\* Absent (None, False) when none of its patterns matches
FieldMatches ==
  [vendor : {Absent, Some(VZen)},
   amount : {Absent, Some(<<"0">>), Some(Amount60)},
   date : {Absent} \cup {Some(d) : d \in DateStrings},
   tds_percentage : {Absent, Some(Tds10), Some(Tds10_5)},
   raw_text : {TMisc}]

\* Option.map
MapSome(o, F(_)) == IF o = Absent THEN Absent ELSE Some(F(o[1]))

\* extract lines 104-123: extracted_data holds, for every field, the parsed
\* value of the match, or None for a field that was not found
ExtractedData(m) ==
  [vendor |-> m.vendor,
   amount |-> MapSome(m.amount, CleanAmount),
   date |-> IF m.date = Absent THEN Absent ELSE ParseDate(m.date[1]),
   tds_percentage |-> MapSome(m.tds_percentage, CleanPercent)]

\* models.py lines 68-85: the fields InvoiceFields accepts.  A key of
\* extracted_data that holds None is present, so that .get(key, default)
\* answers None and not the default.
FieldsValid(d) ==
  /\ d.vendor # Absent
  /\ d.amount # Absent
  /\ d.amount[1] # M_0
  /\ d.date # Absent
  /\ d.tds_percentage # Absent => d.tds_percentage[1] <= 10000

\* extract lines 130-137: the InvoiceFields that is returned when the
\* constructor accepts the fields
Extract(m) ==
  LET d == ExtractedData(m)
  IN  [MkInvoice(d.vendor[1], d.amount[1], d.tds_percentage, m.raw_text)
         EXCEPT !.date = d.date[1]]

\* process_invoice line 64 when the constructor of InvoiceFields raises
\* its ValidationError in extract: the exception leaves extract and
\* process_invoice, neither of which has a handler; the text is one in
\* which the patterns find fields that InvoiceFields does not accept
ExtractRaises(w) ==
  /\ pc[w] = "idle"
  /\ ~ \A m \in FieldMatches : FieldsValid(ExtractedData(m))
  /\ pc' = [pc EXCEPT ![w] = "idle"]
  /\ inv' = NoInvoice
  /\ conf' = F_0
  /\ route' = << >>
  /\ patterns' = << >>
  /\ category' = None
  /\ asked' = FALSE
  /\ txn' = Absent
  /\ outcome' = "ValidationError"
  /\ UNCHANGED <<file, lock, caller, arg, varg, karg, result>>
  /\ UNCHANGED extVars

\* process_invoice lines 63-69: the invoice is extracted, get_all_rules()
\* calls load_rules()
StartProcess(w, i) ==
  /\ pc[w] = "idle"
  /\ pc' = [pc EXCEPT ![w] = "load_acquire"]
  /\ caller' = [caller EXCEPT ![w] = "process"]
  /\ inv' = i
  /\ conf' = F_0
  /\ route' = << >>
  /\ patterns' = << >>
  /\ category' = None
  /\ asked' = FALSE
  /\ txn' = Absent
  /\ outcome' = None
  /\ UNCHANGED <<file, lock, arg, varg, karg, result>>
  /\ UNCHANGED extVars

\* process_invoice lines 41-59: what the text extraction may fail with
TextFailures == {"OCR_FAILED", "READ_FAILED", "UNSUPPORTED_FORMAT"}

\* a process_invoice whose _create_error_transaction exists and builds a
\* Transaction with the failure as its status
ProcNoTextReturns(w, failure) ==
  /\ pc[w] = "idle"
  /\ pc' = [pc EXCEPT ![w] = "idle"]
  /\ inv' = NoInvoice
  /\ conf' = F_0
  /\ route' = << >>
  /\ patterns' = << >>
  /\ category' = None
  /\ asked' = FALSE
  /\ txn' = Some([status |-> failure])
  /\ outcome' = "returned"
  /\ UNCHANGED <<file, lock, caller, arg, varg, karg, result>>
  /\ UNCHANGED extVars

\* process_invoice lines 41-59 on a file whose text cannot be extracted:
\* each of the three branches evaluates self._create_error_transaction,
\* a method SelfRAGAgent does not have, so that an AttributeError leaves
\* process_invoice before the extractor, the store or the scorer is used
ProcNoText(w, failure) ==
  /\ pc[w] = "idle"
  /\ pc' = [pc EXCEPT ![w] = "idle"]
  /\ inv' = NoInvoice
  /\ conf' = F_0
  /\ route' = << >>
  /\ patterns' = << >>
  /\ category' = None
  /\ asked' = FALSE
  /\ txn' = Absent
  /\ outcome' = "AttributeError"
  /\ UNCHANGED <<file, lock, caller, arg, varg, karg, result>>
  /\ UNCHANGED extVars

\* an exception of load_rules leaves process_invoice, which has no handler
ProcRaise(w) ==
  /\ pc[w] = "proc_raise"
  /\ pc' = [pc EXCEPT ![w] = "idle"]
  /\ outcome' = "raised"
  /\ UNCHANGED <<file, lock, caller, arg, varg, karg, result>>
  /\ UNCHANGED <<inv, conf, route, patterns, category, asked, txn>>
  /\ UNCHANGED extVars

\* process_invoice lines 72-75
ProcScore(w) ==
  /\ pc[w] = "proc_score"
  /\ conf' = Calculate(inv, result[w].value)
  /\ pc' = [pc EXCEPT ![w] = "proc_route"]
  /\ UNCHANGED <<file, lock, caller, arg, varg, karg, result>>
  /\ UNCHANGED <<inv, route, patterns, category, asked, txn, outcome>>
  /\ UNCHANGED extVars

\* a decision tree whose comparisons are strict
TierStrict(c) ==
  IF FLeq(CONFIDENCE_HIGH, c) /\ c # CONFIDENCE_HIGH THEN "AUTO"
  ELSE IF FLeq(CONFIDENCE_MEDIUM, c) /\ c # CONFIDENCE_MEDIUM THEN "PATTERN"
  ELSE "MANUAL"

\* the tier of a confidence: process_invoice lines 78, 83, 107
Tier(c) ==
  IF FLeq(CONFIDENCE_HIGH, c) THEN "AUTO"
  ELSE IF FLeq(CONFIDENCE_MEDIUM, c) THEN "PATTERN"
  ELSE "MANUAL"

\* process_invoice lines 77-109: the decision tree.  AUTO builds the
\* transaction and returns; PATTERN goes on to query the vector store;
\* MANUAL goes on to ask the reviewer
ProcRoute(w) ==
  /\ pc[w] = "proc_route"
  /\ route' = Append(route, Tier(conf))
  /\ IF Tier(conf) = "AUTO"
       THEN /\ category' = GuessCategory(inv.raw_text)
            /\ txn' = Some(CreateTransaction(inv, category', "AUTO_POSTED"))
            /\ outcome' = "returned"
            /\ pc' = [pc EXCEPT ![w] = "idle"]
       ELSE /\ pc' = [pc EXCEPT ![w] =
                 IF Tier(conf) = "PATTERN" THEN "proc_query" ELSE "proc_ask"]
            /\ UNCHANGED <<category, txn, outcome>>
  /\ UNCHANGED <<file, lock, caller, arg, varg, karg, result>>
  /\ UNCHANGED <<inv, conf, patterns, asked>>
  /\ UNCHANGED extVars

\* a scan that accepts a similarity of exactly 0.8 as well
BestMatchInclusive(ps) ==
  LET over == {i \in DOMAIN ps : ps[i].similarity_score >= 800}
  IN  IF over = {} THEN 0 ELSE CHOOSE i \in over : \A j \in over : i <= j

\* lines 94-98: the first pattern, in the order returned, whose
\* similarity_score > 0.8; 0 when there is none
BestMatch(ps) ==
  LET over == {i \in DOMAIN ps : ps[i].similarity_score > 800}
  IN  IF over = {} THEN 0 ELSE CHOOSE i \in over : \A j \in over : i <= j

\* a pipeline that goes on to the learning step after an accepted match
ProcQueryLearns(w, ps) ==
  /\ pc[w] = "proc_query"
  /\ patterns' = ps
  /\ IF BestMatch(ps) # 0
       THEN /\ category' = ps[BestMatch(ps)].category
            /\ txn' = Some(CreateTransaction(inv, category', "PATTERN_MATCHED"))
            /\ pc' = [pc EXCEPT ![w] = "proc_learn"]
            /\ UNCHANGED <<route, outcome>>
       ELSE /\ route' = Append(route, "MANUAL")
            /\ pc' = [pc EXCEPT ![w] = "proc_ask"]
            /\ UNCHANGED <<category, txn, outcome>>
  /\ UNCHANGED <<file, lock, caller, arg, varg, karg, result>>
  /\ UNCHANGED <<inv, conf, asked>>
  /\ UNCHANGED extVars

\* process_invoice lines 86-105: query the vector store and scan the result
ProcQuery(w, ps) ==
  /\ pc[w] = "proc_query"
  /\ patterns' = ps
  /\ IF BestMatch(ps) # 0
       THEN /\ category' = ps[BestMatch(ps)].category
            /\ txn' = Some(CreateTransaction(inv, category', "PATTERN_MATCHED"))
            /\ outcome' = "returned"
            /\ pc' = [pc EXCEPT ![w] = "idle"]
            /\ UNCHANGED route
       ELSE /\ route' = Append(route, "MANUAL")
            /\ pc' = [pc EXCEPT ![w] = "proc_ask"]
            /\ UNCHANGED <<category, txn, outcome>>
  /\ UNCHANGED <<file, lock, caller, arg, varg, karg, result>>
  /\ UNCHANGED <<inv, conf, asked>>
  /\ UNCHANGED extVars

\* process_invoice lines 87-91: vector_store.query_similar raises (the
\* embedding model or the collection query fails, vector_store.py lines
\* 96-103); neither query_similar nor process_invoice has a handler, so the
\* exception leaves process_invoice
ProcQueryRaise(w) ==
  /\ pc[w] = "proc_query"
  /\ pc' = [pc EXCEPT ![w] = "idle"]
  /\ outcome' = "raised"
  /\ UNCHANGED <<file, lock, caller, arg, varg, karg, result>>
  /\ UNCHANGED <<inv, conf, route, patterns, category, asked, txn>>
  /\ UNCHANGED extVars

\* _ask_user_and_process lines 122-126: the reviewer chooses c, the
\* transaction is built
ProcAsk(w, c) ==
  /\ pc[w] = "proc_ask"
  /\ asked' = TRUE
  /\ category' = c
  /\ txn' = Some(CreateTransaction(inv, c, "USER_CONFIRMED"))
  /\ pc' = [pc EXCEPT ![w] = "proc_learn"]
  /\ UNCHANGED <<file, lock, caller, arg, varg, karg, result>>
  /\ UNCHANGED <<inv, conf, route, patterns, outcome>>
  /\ UNCHANGED extVars

\* _ask_user lines 176-178: the reviewer interrupts the prompt and
\* sys.exit(1) raises SystemExit, which no handler between the prompt and
\* the top of the program catches (the one of _process_file is for
\* Exception): the process ends.  With the SIGINT handler of main.py
\* (lines 54-58) it is that handler's sys.exit(0) that ends it.
ProcAskInterrupt(w) ==
  /\ pc[w] = "proc_ask"
  /\ asked' = TRUE
  /\ outcome' = "SystemExit"
  /\ pc' = [pc EXCEPT ![w] = "exited"]
  /\ UNCHANGED <<file, lock, caller, arg, varg, karg, result>>
  /\ UNCHANGED <<inv, conf, route, patterns, category, txn>>
  /\ UNCHANGED extVars

\* _learn_from_user_choice lines 253-270: build the rule and call
\* rules_manager.save_rule(new_rule)
ProcLearn(w) ==
  /\ pc[w] = "proc_learn"
  /\ \E kws \in KeywordLists(inv.raw_text, category), now \in Times :
       arg' = [arg EXCEPT ![w] =
         [vendor |-> inv.vendor, keywords |-> kws,
          debit_account |-> DebitAccount(category),
          credit_account |-> inv.vendor \o PayableSuffix,
          tds_applicable |-> category \in TdsApplicableCategories,
          learned_at |-> now, applied_count |-> 1]]
  /\ pc' = [pc EXCEPT ![w] = "save_acquire"]
  /\ UNCHANGED <<file, lock, caller, varg, karg, result>>
  /\ UNCHANGED pipeVars
  /\ UNCHANGED extVars

(***************************************************************************)
(* The environment: rules.json is deleted from outside the program (the    *)
(* case load_rules' FileNotFoundError handler is written for).             *)
(***************************************************************************)
FileRemoved ==
  /\ file.kind # "missing"
  /\ file' = Missing
  /\ UNCHANGED <<lock, pc, caller, arg, varg, karg, result>>
  /\ UNCHANGED pipeVars
  /\ UNCHANGED extVars

(***************************************************************************)
(* TextChunker.chunk_text.  Strings are sequences of characters; an index *)
(* of a slice or of rfind is taken as Python takes it: a negative one     *)
(* counts from the end, and both are clipped to the string.               *)
(***************************************************************************)
MaxTextLen == 4
MaxChunkSize == 3
\* the entries of chunks_metadata (and chunk_index) that are kept
MaxChunks == 5

ChunkChars == {"a", " "}

\* the texts chunk_text is called with
ChunkTexts ==
  UNION {[1 .. n -> ChunkChars] : n \in 0 .. MaxTextLen}

\* the configurations the constructor accepts (lines 10-15), among those
\* with 0 <= chunk_overlap
ChunkConfigs ==
  {c \in [chunk_size : 1 .. MaxChunkSize, chunk_overlap : 0 .. MaxChunkSize] :
     ~(c.chunk_overlap >= c.chunk_size)}

\* a slice index i of a string of length n
PyIndex(i, n) ==
  IF i < 0 THEN (IF i + n < 0 THEN 0 ELSE i + n)
  ELSE IF i > n THEN n ELSE i

\* s[a:b]
Slice(s, a, b) == SubSeq(s, PyIndex(a, Len(s)) + 1, PyIndex(b, Len(s)))

\* s.rfind(c, a, b) for a character c
RFind(s, c, a, b) ==
  LET hits == {k \in PyIndex(a, Len(s)) .. (PyIndex(b, Len(s)) - 1) : s[k + 1] = c}
  IN  IF hits = {} THEN -1 ELSE CHOOSE k \in hits : \A j \in hits : j <= k

ChunkerIdle ==
  [pc |-> "idle", chunk_size |-> 1, chunk_overlap |-> 0, text |-> << >>,
   position |-> 0, chunk_index |-> 0, chunks_metadata |-> << >>]

\* chunk_text lines 26-34, on a TextChunker(chunk_size, chunk_overlap)
ChunkStart(t, c) ==
  /\ chunker.pc \in {"idle", "done"}
  /\ chunker' =
       [pc |-> IF Strip(t) = << >> THEN "done" ELSE "loop",
        chunk_size |-> c.chunk_size, chunk_overlap |-> c.chunk_overlap,
        text |-> Strip(t), position |-> 0, chunk_index |-> 0,
        chunks_metadata |-> << >>]
  /\ UNCHANGED <<storeVars, pipeVars, orch, rag>>

\* chunk_text lines 37-48: where the chunk that starts at position ends
ChunkEnd(text, position, chunk_size) ==
  LET chunk_end == IF position + chunk_size < Len(text)
                     THEN position + chunk_size ELSE Len(text)
      last_space == RFind(text, " ", position, chunk_end)
      last_newline == RFind(text, "\n", position, chunk_end)
      last_break == IF last_space > last_newline THEN last_space ELSE last_newline
  IN  IF chunk_end < Len(text) /\ last_break > position
        THEN last_break + 1
        ELSE chunk_end

\* chunk_text lines 36-63: one iteration of the while loop.  Of the chunks
\* the first MaxChunks are kept.
ChunkIter ==
  /\ chunker.pc = "loop"
  /\ chunker.position < Len(chunker.text)
  /\ LET chunk_end == ChunkEnd(chunker.text, chunker.position, chunker.chunk_size)
         chunk_text == Strip(Slice(chunker.text, chunker.position, chunk_end))
         kept == chunk_text # << >> /\ chunker.chunk_index < MaxChunks
     IN  chunker' =
           [chunker EXCEPT
              !.chunks_metadata =
                 IF kept
                   THEN Append(@, [chunk_index |-> chunker.chunk_index,
                                   chunk_text |-> chunk_text])
                   ELSE @,
              !.chunk_index = IF kept THEN @ + 1 ELSE @,
              !.position = chunk_end - chunker.chunk_overlap]
  /\ UNCHANGED <<storeVars, pipeVars, orch, rag>>

\* chunk_text lines 36 and 65-66: the loop condition fails, the list is
\* returned
ChunkReturn ==
  /\ chunker.pc = "loop"
  /\ ~(chunker.position < Len(chunker.text))
  /\ chunker' = [chunker EXCEPT !.pc = "done"]
  /\ UNCHANGED <<storeVars, pipeVars, orch, rag>>

(***************************************************************************)
(* The inbox orchestrator (main.py).  A file of the inbox is a name and a  *)
(* content; what the agent makes of a content is fixed by the content.     *)
(***************************************************************************)
MaxDrops == 3

PdfNames == {"a.pdf"}
TxtNames == {"b.txt", "c.txt"}
FileNames == PdfNames \cup TxtNames

\* contents: an invoice the agent can read, or a file without text
CRent == "rent invoice"
CMisc == "misc invoice"
CUnreadable == "unreadable"
Contents == {CRent, CMisc, CUnreadable}

\* the InvoiceFields extracted from a readable content
RentInvoice == MkInvoice(VAcmeUpper, CleanAmount(Amount50000), Some(500), TRent)
MiscInvoice == MkInvoice(VAcmeUpper, CleanAmount(Amount60), Absent, TMisc)

InvoiceOf(content) == IF content = CRent THEN RentInvoice ELSE MiscInvoice

InboxFiles == [name : FileNames, content : Contents]

NoFile == [name |-> "none", content |-> "none"]

\* _calculate_file_hash: the SHA-256 digest of the content; different
\* contents have different digests
FileHash(f) == <<"sha256", f.content>>

Hashes == {FileHash(f) : f \in InboxFiles}

\* the orders in which glob can yield the files fs
RECURSIVE GlobOrders(_)
GlobOrders(fs) ==
  IF fs = {} THEN {<< >>}
  ELSE UNION {{<<f>> \o rest : rest \in GlobOrders(fs \ {f})} : f \in fs}

\* _scan_inbox: the *.pdf files, then the *.txt files, each in the order of
\* the directory listing
ScanOrders(inbox) ==
  {pdfs \o txts :
     pdfs \in GlobOrders({f \in inbox : f.name \in PdfNames}),
     txts \in GlobOrders({f \in inbox : f.name \in TxtNames})}

\* a scan that returns the files with a new hash without recording the hash
ScanInboxForgetful(files, processed_hashes) ==
  [new_files |-> SelectSeq(files, LAMBDA f : FileHash(f) \notin processed_hashes),
   processed_hashes |-> processed_hashes]

\* _scan_inbox over the listing files: a file whose hash is not in
\* processed_hashes is recorded there and returned
RECURSIVE ScanInbox(_, _)
ScanInbox(files, processed_hashes) ==
  IF files = << >>
    THEN [new_files |-> << >>, processed_hashes |-> processed_hashes]
    ELSE LET file_hash == FileHash(Head(files))
         IN  IF file_hash \notin processed_hashes
               THEN LET rest == ScanInbox(Tail(files),
                                          processed_hashes \cup {file_hash})
                    IN  [rest EXCEPT !.new_files = <<Head(files)>> \o @]
               ELSE ScanInbox(Tail(files), processed_hashes)

\* AutoBooksOrchestrator.__init__; handed counts, per hash, the calls of
\* _process_file (2 stands for two or more), drops the files dropped so far
OrchInit ==
  [pc |-> "scan", inbox |-> {}, processed_hashes |-> {},
   new_files |-> << >>, current |-> NoFile,
   stats |-> [files_processed |-> 0, auto_posted |-> 0, user_confirmed |-> 0,
              pattern_matched |-> 0, errors |-> 0],
   handed |-> [h \in Hashes |-> 0], drops |-> 0]

(***************************************************************************)
(* The self-reflective agent of self_rag_agent.py with the ledger          *)
(* classifier.  Confidences are in thousandths: the values that occur      *)
(* (k/4, k/5, 0.3, 0.9, 0.99 and such a value plus 0.15) are never within   *)
(* rounding of the 0.70 and 0.85 they are compared with.                   *)
(***************************************************************************)
CONFIDENCE_THRESHOLD == 700
LearnedRuleConfidence == 990
TdsCategoryConfidence == 900
NoKeywordConfidence == 300
ContextBonus == 150
ContextCap == 850

\* LedgerClassifier.CATEGORY_KEYWORDS, in the order of the dict
LEDGER_CATEGORY_KEYWORDS ==
  <<
    [category |-> "rent",
     keywords |-> <<<<"r", "e", "n", "t">>,
                   <<"l", "e", "a", "s", "e">>,
                   <<"a", "c", "c", "o", "m", "m", "o", "d", "a", "t", "i", "o", "n">>,
                   <<"p", "r", "e", "m", "i", "s", "e", "s">>>>],
    [category |-> "salary",
     keywords |-> <<<<"s", "a", "l", "a", "r", "y">>,
                   <<"w", "a", "g", "e", "s">>,
                   <<"r", "e", "m", "u", "n", "e", "r", "a", "t", "i", "o", "n">>,
                   <<"c", "o", "m", "p", "e", "n", "s", "a", "t", "i", "o", "n">>>>],
    [category |-> "professional",
     keywords |-> <<<<"p", "r", "o", "f", "e", "s", "s", "i", "o", "n", "a", "l">>,
                   <<"c", "o", "n", "s", "u", "l", "t", "a", "n", "c", "y">>,
                   <<"c", "o", "n", "s", "u", "l", "t", "i", "n", "g">>,
                   <<"f", "e", "e", "s">>,
                   <<"s", "e", "r", "v", "i", "c", "e", "s">>>>],
    [category |-> "contract",
     keywords |-> <<<<"c", "o", "n", "t", "r", "a", "c", "t">>,
                   <<"c", "a", "t", "e", "r", "i", "n", "g">>,
                   <<"s", "u", "p", "p", "l", "y">>,
                   <<"s", "e", "r", "v", "i", "c", "e", "s">>>>],
    [category |-> "utilities",
     keywords |-> <<<<"e", "l", "e", "c", "t", "r", "i", "c", "i", "t", "y">>,
                   <<"w", "a", "t", "e", "r">>,
                   <<"g", "a", "s">>,
                   <<"i", "n", "t", "e", "r", "n", "e", "t">>,
                   <<"p", "h", "o", "n", "e">>>>],
    [category |-> "office_supplies",
     keywords |-> <<<<"s", "t", "a", "t", "i", "o", "n", "e", "r", "y">>,
                   <<"s", "u", "p", "p", "l", "i", "e", "s">>,
                   <<"o", "f", "f", "i", "c", "e">>,
                   <<"e", "q", "u", "i", "p", "m", "e", "n", "t">>>>],
    [category |-> "travel",
     keywords |-> <<<<"t", "r", "a", "v", "e", "l">>,
                   <<"f", "l", "i", "g", "h", "t">>,
                   <<"h", "o", "t", "e", "l">>,
                   <<"t", "r", "a", "n", "s", "p", "o", "r", "t">>,
                   <<"c", "a", "b">>>>],
    [category |-> "maintenance",
     keywords |-> <<<<"m", "a", "i", "n", "t", "e", "n", "a", "n", "c", "e">>,
                   <<"r", "e", "p", "a", "i", "r">>,
                   <<"c", "l", "e", "a", "n", "i", "n", "g">>,
                   <<"s", "e", "r", "v", "i", "c", "e">>>>]
  >>

\* LedgerClassifier.EXPENSE_ACCOUNTS
ExpenseAccountNames ==
  {"rent", "utilities", "office_supplies", "professional_fees", "catering",
   "equipment", "travel", "maintenance", "advertising", "other_expenses"}

ExpenseCode(account) ==
  CASE account = "rent" -> "5001"
    [] account = "utilities" -> "5002"
    [] account = "office_supplies" -> "5003"
    [] account = "professional_fees" -> "5004"
    [] account = "catering" -> "5005"
    [] account = "equipment" -> "5006"
    [] account = "travel" -> "5007"
    [] account = "maintenance" -> "5008"
    [] account = "advertising" -> "5009"
    [] OTHER -> "5099"

\* LedgerClassifier._get_party_type; every party type it yields is a key
\* of PARTY_ACCOUNTS
PartyType(cat) ==
  CASE cat = "rent" -> "landlord"
    [] cat = "salary" -> "employee"
    [] cat = "professional" -> "professional"
    [] cat = "contract" -> "contractor"
    [] cat = "utilities" -> "utilities_vendor"
    [] cat = "maintenance" -> "contractor"
    [] OTHER -> "supplier"

\* LedgerClassifier.PARTY_ACCOUNTS
PartyCode(party) ==
  CASE party = "landlord" -> "4001"
    [] party = "utilities_vendor" -> "4002"
    [] party = "supplier" -> "4003"
    [] party = "professional" -> "4004"
    [] party = "contractor" -> "4005"
    [] OTHER -> "4006"

\* LedgerClassifier.classify_category: the share of a category's keywords
\* that occur in "vendor description", lower-cased; the first category
\* with the highest share wins
ClassifyCategory(vendor_name, description) ==
  LET combined_text == Lower(vendor_name \o <<" ">> \o description)
      matches(i) ==
        Cardinality({k \in DOMAIN LEDGER_CATEGORY_KEYWORDS[i].keywords :
          Contains(combined_text, LEDGER_CATEGORY_KEYWORDS[i].keywords[k])})
      score(i) ==
        (matches(i) * 1000) \div Len(LEDGER_CATEGORY_KEYWORDS[i].keywords)
      top == CHOOSE i \in DOMAIN LEDGER_CATEGORY_KEYWORDS :
               \A j \in DOMAIN LEDGER_CATEGORY_KEYWORDS :
                 score(j) < score(i) \/ (score(j) = score(i) /\ i <= j)
  IN  IF score(top) = 0
        THEN [category |-> "other_expenses", confidence |-> NoKeywordConfidence]
        ELSE [category |-> LEDGER_CATEGORY_KEYWORDS[top].category,
              confidence |-> score(top)]

\* the vendors of the documents; no vendor is the empty name
RagVendors == {VAcme, VAcmeUpper}
NoVendor == << >>

\* the fields of a document that classification reads
RagFields ==
  [vendor_name : RagVendors \cup {NoVendor},
   tds_category : {None, "rent", "professional"},
   description : {TRent, TMisc}]

\* classify_category(fields.vendor_name or "Unknown", fields.description
\* or "") for the fields above
CategoryGuess ==
  [vendor_name \in RagVendors \cup {NoVendor}, description \in {TRent, TMisc} |->
     ClassifyCategory(IF vendor_name = NoVendor
                        THEN <<"U", "n", "k", "n", "o", "w", "n">>
                        ELSE vendor_name,
                      description)]

\* corrections as the review UI sends them; one names no accounts
Corrections ==
  { [debit_account |-> "travel", debit_code |-> "5007",
     credit_account |-> "supplier", credit_code |-> "4003"],
    [debit_account |-> "rent", debit_code |-> "5001",
     credit_account |-> "landlord", credit_code |-> "4001"],
    [debit_account |-> None, debit_code |-> None,
     credit_account |-> None, credit_code |-> None] }

\* the rules of the dict learned_rules stored under the key vendor_name
LearnedFor(learned_rules, vendor_name) ==
  {r \in learned_rules : r.vendor_name = vendor_name}

\* a learn_from_correction that adds a rule and keeps the earlier ones
LearnKeepingEarlier(learned_rules, vendor_name, correction, now) ==
  IF vendor_name = NoVendor THEN learned_rules
  ELSE learned_rules \cup
         {[vendor_name |-> vendor_name,
           debit_account |-> correction.debit_account,
           debit_code |-> correction.debit_code,
           credit_account |-> correction.credit_account,
           credit_code |-> correction.credit_code,
           learned_at |-> now,
           correction_reason |-> "user_feedback"]}

\* SelfRAGAgent.learn_from_correction: learned_rules[vendor_name] = rule
LearnFromCorrection(learned_rules, vendor_name, correction, now) ==
  IF vendor_name = NoVendor THEN learned_rules
  ELSE (learned_rules \ LearnedFor(learned_rules, vendor_name)) \cup
         {[vendor_name |-> vendor_name,
           debit_account |-> correction.debit_account,
           debit_code |-> correction.debit_code,
           credit_account |-> correction.credit_account,
           credit_code |-> correction.credit_code,
           learned_at |-> now,
           correction_reason |-> "user_feedback"]}

\* LedgerClassifier.classify_ledger_accounts
ClassifyLedgerAccounts(fields, learned_rules) ==
  IF fields.vendor_name # NoVendor
       /\ LearnedFor(learned_rules, fields.vendor_name) # {}
    THEN LET rule == CHOOSE r \in LearnedFor(learned_rules, fields.vendor_name) : TRUE
         IN  [debit_account |-> rule.debit_account,
              debit_code |-> rule.debit_code,
              credit_account |-> rule.credit_account,
              credit_code |-> rule.credit_code,
              confidence |-> LearnedRuleConfidence,
              applied_rule |-> "learned_rule"]
    ELSE LET guess == IF fields.tds_category = None
                        THEN CategoryGuess[fields.vendor_name, fields.description]
                        ELSE [category |-> fields.tds_category,
                              confidence |-> TdsCategoryConfidence]
             debit == IF guess.category \in ExpenseAccountNames
                        THEN guess.category ELSE "other_expenses"
             party == PartyType(guess.category)
         IN  [debit_account |-> debit,
              debit_code |-> ExpenseCode(debit),
              credit_account |-> party,
              credit_code |-> PartyCode(party),
              confidence |-> guess.confidence,
              applied_rule |-> None]

\* what query_similar_chunks can return: the categories in the metadata of
\* the chunks found (None for a chunk without one)
SimilarChunks == {<< >>, <<None>>, <<"travel", "rent", "travel">>}

\* Counter(similar_categories).most_common(1)[0][0]
MostCommon(cats) ==
  LET count(c) == Cardinality({i \in DOMAIN cats : cats[i] = c})
      first(c) == CHOOSE i \in DOMAIN cats : cats[i] = c /\ \A j \in 1 .. (i - 1) : cats[j] # c
  IN  CHOOSE c \in Range(cats) :
        \A d \in Range(cats) :
          count(d) < count(c) \/ (count(d) = count(c) /\ first(c) <= first(d))

\* SelfRAGAgent._reason_with_context
ReasonWithContext(classification, similar) ==
  LET similar_categories == SelectSeq(similar, LAMBDA c : c # None)
  IN  IF similar_categories = << >> THEN classification
      ELSE LET most_common == MostCommon(similar_categories)
           IN  IF classification.debit_account # most_common
                 THEN [classification EXCEPT
                         !.debit_account = most_common,
                         !.debit_code = ExpenseCode(most_common),
                         !.confidence =
                            IF @ + ContextBonus < ContextCap
                              THEN @ + ContextBonus ELSE ContextCap,
                         !.applied_rule = "context_based_reasoning"]
                 ELSE classification

\* SelfRAGAgent.__init__ with no rules file; latest is, per vendor, the
\* last correction learnt for it, relearnt the vendors corrected more than
\* once, doc the last document processed
RagInit ==
  [learned_rules |-> {}, latest |-> [v \in RagVendors |-> Absent],
   relearnt |-> {}, doc |-> Absent, documents |-> 0]

(***************************************************************************)
(* The store shared by NumWorkers threads.                                 *)
(***************************************************************************)
Init ==
  /\ file \in InitialFiles
  /\ lock = Free
  /\ pc = [w \in Workers |-> "idle"]
  /\ caller = [w \in Workers |-> "top"]
  /\ arg = [w \in Workers |-> RuleAcme]
  /\ varg = [w \in Workers |-> VAcme]
  /\ karg = [w \in Workers |-> << >>]
  /\ result = [w \in Workers |-> NoResult]
  /\ inv = NoInvoice
  /\ conf = F_0
  /\ route = << >>
  /\ patterns = << >>
  /\ category = None
  /\ asked = FALSE
  /\ txn = Absent
  /\ outcome = None
  /\ chunker = ChunkerIdle
  /\ orch = OrchInit
  /\ rag = RagInit

\* a step of the call a thread is executing
RunStep(w) ==
  \/ LoadAcquire(w)
  \/ LoadRead(w)
  \/ SaveAcquire(w)
  \/ SaveCallLoad(w)
  \/ IncrAcquire(w)
  \/ IncrCallLoad(w)

\* a thread calls into the store
CallStep(w) ==
  \/ StartLoad(w)
  \/ \E r \in NewRules : StartSave(w, r)
  \/ \E v \in Vendors : StartIncr(w, v)

Next == (\E w \in Workers : CallStep(w) \/ RunStep(w)) \/ FileRemoved

Spec == Init /\ [][Next]_vars

\* every thread that is inside a call and can run is eventually scheduled
FairSpec == Spec /\ \A w \in Workers : WF_vars(RunStep(w))

(***************************************************************************)
(* One thread using the store, call after call, as src/test_rules.py does: *)
(* load_rules, save_rule, increment_usage and find_matching.               *)
(***************************************************************************)
ScriptRun(w) == RunStep(w) \/ FindScan(w)

ScriptCall(w) ==
  \/ CallStep(w)
  \/ \E v \in Vendors, kws \in FindKeywords : StartFind(w, v, kws)

ScriptNext == ScriptCall(Agent) \/ ScriptRun(Agent) \/ FileRemoved

\* a call that can go on does go on
ScriptSpec == Init /\ [][ScriptNext]_vars /\ WF_vars(ScriptRun(Agent))

(***************************************************************************)
(* The agent: one thread processing documents one after the other.         *)
(***************************************************************************)
\* a step of process_invoice once it has been called; results are the
\* lists the vector store may answer a query with
PipeRunOn(w, results) ==
  \/ LoadAcquire(w)
  \/ LoadRead(w)
  \/ ProcRaise(w)
  \/ ProcScore(w)
  \/ ProcRoute(w)
  \/ \E ps \in results : ProcQuery(w, ps)
  \/ ProcQueryRaise(w)
  \/ \E c \in UserCategories : ProcAsk(w, c)
  \/ ProcAskInterrupt(w)
  \/ ProcLearn(w)
  \/ SaveAcquire(w)
  \/ SaveCallLoad(w)

PipeRun(w) == PipeRunOn(w, PatternResults)

PipeStep(w) ==
  \/ \E i \in Invoices : StartProcess(w, i)
  \/ \E failure \in TextFailures : ProcNoText(w, failure)
  \/ ExtractRaises(w)
  \/ PipeRun(w)

PipeNext == PipeStep(Agent)

PipeSpec == Init /\ [][PipeNext]_vars

(***************************************************************************)
(* The agent with a scheduler: its thread keeps running while it can, and  *)
(* the reviewer answers when asked.  Progress is checked on a few          *)
(* documents, one or more for each tier, and on two query results.         *)
(***************************************************************************)
\* a document of an unknown vendor (with the store empty), one that scores
\* 0.50 against the rule for Acme, one that scores 0.85 against it, and one
\* that gets all four bonuses against the rule for Zen
SampleInvoices ==
  { MkInvoice(VZen, CleanAmount(Amount1999_99), Absent, TMisc),
    MkInvoice(VAcmeUpper, CleanAmount(Amount60), Absent, TMisc),
    MkInvoice(VAcmeUpper, CleanAmount(Amount50000), Some(500), TRent),
    MkInvoice(VZen, CleanAmount(Amount50000), Some(1000), TFees) }

SampleResults ==
  { << >>,
    <<[similarity_score |-> 800, category |-> "salary"],
      [similarity_score |-> 900, category |-> "rent"]>> }

SampleRun(w) == PipeRunOn(w, SampleResults)

SampleNext ==
  \/ \E i \in SampleInvoices : StartProcess(Agent, i)
  \/ SampleRun(Agent)

FairPipeSpec == Init /\ [][SampleNext]_vars /\ WF_vars(SampleRun(Agent))

(***************************************************************************)
(* The text chunker, called again and again; a call that can go on does.   *)
(***************************************************************************)
ChunkRun == ChunkIter \/ ChunkReturn

ChunkNext ==
  \/ \E t \in ChunkTexts, c \in ChunkConfigs : ChunkStart(t, c)
  \/ ChunkRun

\* the rule store plays no part: one content of the file is enough
FreshInit == Init /\ file = FreshFile

ChunkSpec == FreshInit /\ [][ChunkNext]_vars /\ WF_vars(ChunkRun)

(***************************************************************************)
(* The orchestrator's run(): scan the inbox, hand every new file to        *)
(* _process_file, scan again.  Files arrive in the inbox at any time.      *)
(***************************************************************************)
\* a file is put into the inbox.  The inbox is read by _scan_inbox only, so
\* a file that arrives while another is processed is one that arrives
\* before the next scan
InboxDrop(f) ==
  /\ orch.pc = "scan"
  /\ orch.drops < MaxDrops
  /\ \A g \in orch.inbox : g.name # f.name
  /\ orch' = [orch EXCEPT !.inbox = @ \cup {f}, !.drops = @ + 1]
  /\ UNCHANGED <<storeVars, pipeVars, chunker, rag>>

\* run lines 167 and 182: _scan_inbox
OrchScan(files) ==
  /\ orch.pc = "scan"
  /\ LET scan == ScanInbox(files, orch.processed_hashes)
     IN  orch' = [orch EXCEPT
                    !.new_files = scan.new_files,
                    !.processed_hashes = scan.processed_hashes,
                    !.pc = IF scan.new_files = << >> THEN "scan" ELSE "files"]
  /\ UNCHANGED <<storeVars, pipeVars, chunker, rag>>

\* run lines 171 and 186, _process_file line 84: the next new file is
\* handed to _process_file, which calls agent.process_invoice
OrchProcessFile ==
  /\ orch.pc = "files"
  /\ orch.new_files # << >>
  /\ LET f == Head(orch.new_files)
     IN  orch' = [orch EXCEPT
                    !.current = f,
                    !.new_files = Tail(@),
                    !.handed[FileHash(f)] = IF @ < 2 THEN @ + 1 ELSE @,
                    !.pc = "call"]
  /\ outcome' = None
  /\ UNCHANGED <<inv, conf, route, patterns, category, asked, txn>>
  /\ UNCHANGED <<storeVars, chunker, rag>>

\* agent.process_invoice starts on the file handed over
OrchAgentStart ==
  /\ orch.pc = "call"
  /\ outcome = None
  /\ \/ /\ orch.current.content = CUnreadable
        /\ \E failure \in TextFailures : ProcNoText(Agent, failure)
     \/ /\ orch.current.content # CUnreadable
        /\ StartProcess(Agent, InvoiceOf(orch.current.content))

\* where run() goes on after a file
AfterFile(o) == IF o.new_files = << >> THEN "scan" ELSE "files"

\* the stats after a Transaction of the given status was written
Posted(stats, status) ==
  LET counted == [stats EXCEPT !.files_processed = @ + 1]
  IN  IF status = "AUTO_POSTED" THEN [counted EXCEPT !.auto_posted = @ + 1]
      ELSE IF status = "USER_CONFIRMED"
        THEN [counted EXCEPT !.user_confirmed = @ + 1]
      ELSE IF status = "PATTERN_MATCHED"
        THEN [counted EXCEPT !.pattern_matched = @ + 1]
      ELSE counted

\* _process_file lines 87-101: the Transaction is written, the stats are
\* updated and the file is moved to the archive; a move that fails is
\* logged (lines 70-76) and the file stays
OrchPosted(archived) ==
  /\ orch.pc = "call"
  /\ pc[Agent] = "idle"
  /\ outcome = "returned"
  /\ orch' = [orch EXCEPT
                !.stats = Posted(@, txn[1].status),
                !.inbox = IF archived THEN @ \ {orch.current} ELSE @,
                !.pc = AfterFile(orch)]
  /\ UNCHANGED <<storeVars, pipeVars, chunker, rag>>

\* _process_file lines 87 and 103-106: append_transaction raises (the
\* workbook cannot be saved)
OrchWriteFails ==
  /\ orch.pc = "call"
  /\ pc[Agent] = "idle"
  /\ outcome = "returned"
  /\ orch' = [orch EXCEPT !.stats.errors = @ + 1, !.pc = AfterFile(orch)]
  /\ UNCHANGED <<storeVars, pipeVars, chunker, rag>>

\* _process_file lines 103-106: process_invoice raised an Exception
OrchFailed ==
  /\ orch.pc = "call"
  /\ pc[Agent] = "idle"
  /\ outcome \in {"raised", "AttributeError", "ValidationError"}
  /\ orch' = [orch EXCEPT !.stats.errors = @ + 1, !.pc = AfterFile(orch)]
  /\ UNCHANGED <<storeVars, pipeVars, chunker, rag>>

\* SystemExit is not an Exception: it leaves _process_file and run
OrchExit ==
  /\ orch.pc = "call"
  /\ pc[Agent] = "exited"
  /\ orch' = [orch EXCEPT !.pc = "exited"]
  /\ UNCHANGED <<storeVars, pipeVars, chunker, rag>>

OrchRun ==
  \/ \E files \in ScanOrders(orch.inbox) : OrchScan(files)
  \/ OrchProcessFile
  \/ OrchAgentStart
  \/ SampleRun(Agent)
  \/ \E archived \in BOOLEAN : OrchPosted(archived)
  \/ OrchWriteFails
  \/ OrchFailed
  \/ OrchExit

OrchNext ==
  \/ \E f \in InboxFiles : InboxDrop(f)
  \/ OrchRun

OrchSpec == Init /\ [][OrchNext]_vars /\ WF_vars(OrchRun)

(***************************************************************************)
(* The self-reflective agent: corrections and documents in any order.      *)
(***************************************************************************)
\* learn_from_correction(vendor_name, correction)
RagLearn(vendor_name, correction, now) ==
  /\ rag' = [rag EXCEPT
               !.learned_rules =
                  LearnFromCorrection(@, vendor_name, correction, now),
               !.latest[vendor_name] = Some(correction),
               !.relearnt = IF rag.latest[vendor_name] # Absent
                              THEN @ \cup {vendor_name} ELSE @]
  /\ UNCHANGED <<storeVars, pipeVars, chunker, orch>>

\* process_document on a text from which fields were extracted; similar is
\* what the embedding store returns if it is asked.  The TransactionEntry
\* needs account names: without them process_document raises
RagProcess(fields, similar) ==
  /\ LET first == ClassifyLedgerAccounts(fields, rag.learned_rules)
         retrieved == first.confidence < CONFIDENCE_THRESHOLD
         refined == IF retrieved THEN ReasonWithContext(first, similar)
                    ELSE first
         status == IF retrieved /\ refined.confidence < CONFIDENCE_THRESHOLD
                     THEN "needs_review" ELSE "approved"
     IN  rag' = [rag EXCEPT
                   !.doc = Some([vendor_name |-> fields.vendor_name,
                                 ledger_classification |-> refined,
                                 status |-> status,
                                 retrieved |-> retrieved,
                                 outcome |->
                                   IF None \in {refined.debit_account,
                                                refined.credit_account}
                                     THEN "ValidationError" ELSE "returned"]),
                   !.documents = 1 - @]
  /\ UNCHANGED <<storeVars, pipeVars, chunker, orch>>

RagNext ==
  \/ \E v \in RagVendors, c \in Corrections, now \in Times : RagLearn(v, c, now)
  \/ \E fields \in RagFields, similar \in SimilarChunks :
       RagProcess(fields, similar)

RagSpec == FreshInit /\ [][RagNext]_vars

(***************************************************************************)
(* Properties of the store.                                                *)
(***************************************************************************)
\* the stored rules whose vendor is v, ignoring case
RulesFor(f, v) ==
  IF f.kind = "list"
    THEN {i \in DOMAIN f.rules : Lower(f.rules[i].vendor) = Lower(v)}
    ELSE {}

\* w is inside save_rule (called, not yet returned)
InSave(w) ==
  \/ pc[w] \in {"save_acquire", "save_locked"}
  \/ pc[w] = "load_acquire" /\ caller[w] = "save"

\* w is inside increment_usage
InIncr(w) ==
  \/ pc[w] \in {"incr_acquire", "incr_locked"}
  \/ pc[w] = "load_acquire" /\ caller[w] = "incr"

\* w is inside a `with self._lock:` block
InLockedSection(w) ==
  \/ pc[w] \in {"load_read", "save_locked", "incr_locked"}
  \/ pc[w] = "load_acquire" /\ caller[w] \in {"save", "incr"}

\* C4: save(rule) followed by save(rule') for the same vendor ignoring case
\* leaves exactly the first rule in the store: a save_rule call for a vendor
\* the store does not know leads to a store that holds exactly one rule for
\* that vendor (unless rules.json is deleted from outside meanwhile), so
\* that the second call finds it and changes nothing.
C4_SaveStoresFirstRule ==
  \A w \in Workers :
    (pc[w] = "save_acquire" /\ file.kind = "list"
       /\ RulesFor(file, arg[w].vendor) = {})
    ~> (Cardinality(RulesFor(file, arg[w].vendor)) = 1 \/ file.kind = "missing")

\* C5: two workers that call save concurrently for the same unknown vendor
\* are serialized: both calls complete (each returns to its caller) and the
\* store then holds exactly one rule for that vendor (unless rules.json is
\* deleted from outside meanwhile).
C5_ConcurrentSavesComplete ==
  \A w1, w2 \in Workers :
    (w1 # w2 /\ pc[w1] = "save_acquire" /\ pc[w2] = "save_acquire"
       /\ Lower(arg[w1].vendor) = Lower(arg[w2].vendor)
       /\ file.kind = "list" /\ RulesFor(file, arg[w1].vendor) = {})
    ~> \/ /\ ~InSave(w1) /\ ~InSave(w2)
          /\ Cardinality(RulesFor(file, arg[w1].vendor)) = 1
       \/ file.kind = "missing"

\* str.upper()
Upper(s) ==
  [i \in DOMAIN s |->
     IF \E j \in DOMAIN LowerLetters : LowerLetters[j] = s[i]
       THEN UpperLetters[CHOOSE j \in DOMAIN LowerLetters : LowerLetters[j] = s[i]]
       ELSE s[i]]

\* C11: a save_rule(rule) call for a vendor the store does not know
\* completes, and then find_matching with that vendor in any letter case
\* returns a rule equal to the saved one, load_rules returning one more rule
\* than before (here: at least one), unless rules.json is deleted from
\* outside meanwhile.
C11_FindAfterSave ==
  (pc[Agent] = "save_acquire" /\ file.kind = "list"
     /\ RulesFor(file, arg[Agent].vendor) = {})
  ~> \/ /\ ~InSave(Agent)
        /\ LoadOutcome(file).value # << >>
        /\ \A v \in {arg[Agent].vendor, Lower(arg[Agent].vendor),
                      Upper(arg[Agent].vendor)} :
             FindMatching(LoadOutcome(file).value, v, << >>) = <<arg[Agent]>>
     \/ file.kind = "missing"

\* C6: no two workers are at the same time inside the lock-protected
\* sections of save_rule, load_rules and increment_usage.
C6_MutualExclusion ==
  \A w1, w2 \in Workers :
    (InLockedSection(w1) /\ InLockedSection(w2)) => w1 = w2

\* C6 witness: one worker reads the file inside load_rules while another
\* one waits at the lock for its own call
C6_Witness ==
  \E w1, w2 \in Workers :
    /\ w1 # w2
    /\ pc[w1] = "load_read"
    /\ pc[w2] \in {"load_acquire", "save_acquire", "incr_acquire"}

\* C7: a save_rule or increment_usage call made while no other worker holds
\* the lock never blocks: the calling thread can always take its next step.
C7_CallNeverBlocks ==
  \A w \in Workers :
    ((InSave(w) \/ InIncr(w)) /\ lock \notin (Workers \ {w}))
      => ENABLED RunStep(w)

\* C10: load_rules never raises: on a missing file and on corrupt contents
\* (not JSON, or JSON of another shape) it returns the empty list, releases
\* the lock and leaves the file as it is.
C10_LoadNeverRaises ==
  [][\A w \in Workers :
       (pc[w] = "load_read" /\ pc'[w] # "load_read"
          /\ file.kind \in {"missing", "garbage", "nonobject", "norules",
                            "noniterable"})
       => (/\ result'[w].kind = "returned"
           /\ result'[w].value = << >>
           /\ lock' = Free
           /\ file' = file)]_vars

(***************************************************************************)
(* Properties of the scorer and of the pipeline (under PipeSpec).          *)
(***************************************************************************)
\* the rules process_invoice loaded for the current document
LoadedRules == result[Agent].value

\* calculate awarded all four bonuses to the current document
AllFourBonuses ==
  /\ VendorRules(inv, LoadedRules) # << >>
  /\ KeywordsMatch(inv, LoadedRules)
  /\ AmountInRange(inv, LoadedRules)
  /\ TdsMatches(inv)

\* C1: calculate returns a value in [0,1]; when all four bonuses are
\* awarded (0.35 + 0.30 + 0.20 + 0.15) the result is 1.0 and never more.
C1_ScoreInUnitAndFullIsOne ==
  pc[Agent] = "proc_route" =>
    /\ FLeq(<<0, 0>>, conf)
    /\ FLeq(conf, <<2 ^ 27, 0>>)
    /\ AllFourBonuses => conf = <<2 ^ 27, 0>>

\* the document's confidence c satisfies lo <= c (lo, hi given as floats)
AtLeast(c, lo) == lo[1] < c[1] \/ (lo[1] = c[1] /\ lo[2] <= c[2])

\* C2: a document is routed once by its confidence c: c >= 0.75 to AUTO,
\* 0.50 <= c < 0.75 to PATTERN, c < 0.50 to MANUAL (0.75 and 0.50 belong to
\* the higher tier); the only second tier a document can enter is MANUAL,
\* after PATTERN found no match.
C2_RoutedOnceByConfidence ==
  /\ Len(route) <= 2
  /\ route # << >> =>
       route[1] = (IF AtLeast(conf, <<3 * 2 ^ 25, 0>>) THEN "AUTO"
                   ELSE IF AtLeast(conf, <<2 ^ 26, 0>>) THEN "PATTERN"
                   ELSE "MANUAL")
  /\ Len(route) = 2 =>
       /\ route = <<"PATTERN", "MANUAL">>
       /\ BestMatch(patterns) = 0
  /\ txn # Absent =>
       txn[1].status = (CASE route[Len(route)] = "AUTO" -> "AUTO_POSTED"
                          [] route[Len(route)] = "PATTERN" -> "PATTERN_MATCHED"
                          [] OTHER -> "USER_CONFIRMED")
  /\ asked => route[Len(route)] = "MANUAL"

\* C2 witness: a document at exactly 0.50 went to PATTERN, found no match
\* and fell through to MANUAL, where the reviewer was asked
C2_Witness ==
  /\ conf = <<2 ^ 26, 0>>
  /\ route = <<"PATTERN", "MANUAL">>
  /\ asked
  /\ txn # Absent

\* C12: every document that reaches MANUAL (from LOW confidence or by
\* fall-through from PATTERN) emits a USER_CONFIRMED Transaction with the
\* category the reviewer chose: once the reviewer is asked, process_invoice
\* returns that Transaction, the learning step having run in between.
C12_ManualEmitsAndLearns ==
  (pc[Agent] = "proc_ask")
  ~> (/\ outcome = "returned"
      /\ txn # Absent
      /\ txn[1].status = "USER_CONFIRMED"
      /\ txn[1].debit_account = DebitAccount(category)
      /\ asked)

\* C13: a document resolved in AUTO, or in PATTERN with an accepted match,
\* performs no learning step: the reviewer is not asked, save_rule is not
\* called (no rule was ever handed to it and the thread is not inside it),
\* the document never entered MANUAL, and the store holds what it held when
\* the document's rules were loaded.
C13_NoLearningOutsideManual ==
  (txn # Absent /\ txn[1].status \in {"AUTO_POSTED", "PATTERN_MATCHED"}) =>
    /\ outcome = "returned"
    /\ pc[Agent] = "idle"
    /\ ~asked
    /\ ~InSave(Agent)
    /\ arg[Agent] = RuleAcme
    /\ route \in {<<"AUTO">>, <<"PATTERN">>}
    /\ LoadOutcome(file).kind = result[Agent].kind
    /\ LoadOutcome(file).value = result[Agent].value

\* C13 witness: a document was resolved by an accepted pattern match
C13_Witness ==
  /\ txn # Absent
  /\ txn[1].status = "PATTERN_MATCHED"
  /\ route = <<"PATTERN">>
  /\ outcome = "returned"

\* C14: in PATTERN at most 3 results are scanned in the order returned and
\* the first one whose similarity is strictly above 0.8 is accepted (not
\* one at exactly 0.8, not a later better one): the Transaction is
\* PATTERN_MATCHED with that entry's category; when no entry is above 0.8,
\* or there is none at all, the document falls through to MANUAL.
C14_FirstOverThreshold ==
  /\ Len(patterns) <= 3
  /\ (txn # Absent /\ txn[1].status = "PATTERN_MATCHED") =>
       \E i \in DOMAIN patterns :
         /\ patterns[i].similarity_score > 800
         /\ \A j \in 1 .. (i - 1) : patterns[j].similarity_score <= 800
         /\ category = patterns[i].category
         /\ txn[1].debit_account = DebitAccount(patterns[i].category)
  /\ (route # << >> /\ route[1] = "PATTERN" /\ pc[Agent] # "proc_query"
        /\ outcome # "raised") =>
       IF \A i \in DOMAIN patterns : patterns[i].similarity_score <= 800
         THEN route = <<"PATTERN", "MANUAL">>
         ELSE /\ route = <<"PATTERN">>
              /\ txn # Absent
              /\ txn[1].status = "PATTERN_MATCHED"

\* C14 witness: the results 0.80, 0.85, 0.90 came back in this order and the
\* second one was accepted
C14_Witness ==
  /\ Len(patterns) = 3
  /\ patterns[1].similarity_score = 800
  /\ patterns[2].similarity_score = 850
  /\ patterns[3].similarity_score = 900
  /\ txn # Absent
  /\ txn[1].status = "PATTERN_MATCHED"
  /\ category = patterns[2].category

\* C15: a learning step whose save_rule call fails (the one way it fails in
\* this code is by never coming back from its load_rules call) does not
\* keep the Transaction back: process_invoice still returns the
\* USER_CONFIRMED Transaction it built before learning started.
C15_LearningFailureNotPropagated ==
  (pc[Agent] = "load_acquire" /\ caller[Agent] = "save" /\ lock = Agent)
  ~> (outcome = "returned" /\ txn # Absent)

\* C16: a Pattern Index query that raises for a MEDIUM-confidence document
\* does not end process_invoice by an exception (the document goes on to
\* MANUAL instead).
C16_QueryFailureFallsToManual ==
  (route # << >> /\ route[1] = "PATTERN") => outcome # "raised"

\* C17: once the invoice is extracted and process_invoice has started on
\* it, it eventually returns a Transaction whose status is AUTO_POSTED,
\* PATTERN_MATCHED or USER_CONFIRMED, whatever the store and the index do.
C17_AlwaysReturnsTransaction ==
  (pc[Agent] = "load_acquire" /\ caller[Agent] = "process")
  ~> (/\ outcome = "returned"
      /\ txn # Absent
      /\ txn[1].status \in {"AUTO_POSTED", "PATTERN_MATCHED", "USER_CONFIRMED"})

\* the TDS rate of a category as a whole percentage
RatePercent(cat) == TdsRate(cat) \div 100

\* C18: every Transaction has tds_account and tds_amount both present or
\* both absent; with them present debit_amount equals credit_amount +
\* tds_amount and tds_amount = amount * rate / 100 for the resolved
\* category; with them absent debit_amount equals credit_amount;
\* debit_amount is the invoice amount.
C18_TdsBalances ==
  txn # Absent =>
    /\ (txn[1].tds_account = Absent) <=> (txn[1].tds_amount = Absent)
    /\ txn[1].debit_amount = inv.amount
    /\ txn[1].tds_amount = Absent => txn[1].debit_amount = txn[1].credit_amount
    /\ txn[1].tds_amount # Absent =>
         /\ txn[1].tds_amount[1] = MDiv(MMul(inv.amount, RatePercent(category)), 100)
         /\ MAdd(txn[1].credit_amount, txn[1].tds_amount[1]) = txn[1].debit_amount

\* C19: category resolution is total: whatever the category string (one of
\* the reviewer's five, one stored in the Pattern Index, the scorer's
\* guess including SUSPENSE), the Transaction is built with one of the five
\* debit accounts and the credit account "<vendor> (Payable)"; a category
\* outside rent, consultancy, salary, contract gets "Miscellaneous Expense"
\* and no TDS, each of those four its own account and its TDS.
C19_CategoryResolutionTotal ==
  txn # Absent =>
    /\ txn[1].debit_account \in
         {"Rent Expense", "Professional Fees", "Salary Expense",
          "Contract Expense", "Miscellaneous Expense"}
    /\ txn[1].credit_account = inv.vendor \o <<" ", "(", "P", "a", "y", "a", "b", "l", "e", ")">>
    /\ IF category \in {"rent", "consultancy", "salary", "contract"}
         THEN /\ txn[1].debit_account # "Miscellaneous Expense"
              /\ txn[1].tds_amount # Absent
         ELSE /\ txn[1].debit_account = "Miscellaneous Expense"
              /\ txn[1].tds_amount = Absent
              /\ txn[1].tds_account = Absent
              /\ txn[1].credit_amount = inv.amount

\* C19 witness: the scorer's SUSPENSE went into an AUTO_POSTED Transaction
C19_Witness ==
  /\ txn # Absent
  /\ category = "SUSPENSE"
  /\ txn[1].status = "AUTO_POSTED"
  /\ txn[1].debit_account = "Miscellaneous Expense"

\* C20: cold start: a document whose vendor has no rule in the store scores
\* below 0.50, goes to MANUAL, and after the reviewer's choice process
\* returns the USER_CONFIRMED Transaction with that category's accounts and
\* TDS, the store having gained exactly one rule for the vendor.
C20_ColdStartLearns ==
  (pc[Agent] = "proc_score" /\ VendorRules(inv, result[Agent].value) = << >>)
  ~> (/\ outcome = "returned"
      /\ route = <<"MANUAL">>
      /\ txn # Absent
      /\ txn[1].status = "USER_CONFIRMED"
      /\ txn[1].debit_account = DebitAccount(category)
      /\ Cardinality(RulesFor(file, inv.vendor)) = 1)

\* C21: a later similar invoice of a vendor the store has a rule for (same
\* vendor up to letter case, a keyword of the rule in the text, amount in
\* the sanity band, declared TDS equal to the category's rate) scores 1.00
\* and is resolved in AUTO: AUTO_POSTED, the reviewer not asked, no
\* learning step, the store as it was when the rules were loaded.
C21_KnownVendorScoresOne ==
  (outcome # None /\ result[Agent].op = "load" /\ AllFourBonuses) =>
    /\ conf = F_1
    /\ route = <<"AUTO">>
    /\ outcome = "returned"
    /\ txn # Absent
    /\ txn[1].status = "AUTO_POSTED"
    /\ ~asked
    /\ ~InSave(Agent)
    /\ LoadOutcome(file).value = result[Agent].value

\* the list rules rearranged by the permutation p of its indices
Permuted(rules, p) == [i \in DOMAIN rules |-> rules[p[i]]]

\* C22: calculate is deterministic and order-independent: the score of the
\* document is the score calculate gives for every permutation of the
\* loaded rules (also with several rules for the invoice's vendor), and the
\* call changes neither the invoice, nor the loaded rules, nor the store.
C22_ScoreOrderIndependent ==
  /\ [](pc[Agent] = "proc_route" =>
          \A p \in Permutations(DOMAIN LoadedRules) :
            Calculate(inv, Permuted(LoadedRules, p)) = conf)
  /\ [][pc[Agent] = "proc_score" =>
          (inv' = inv /\ file' = file /\ result' = result)]_vars

\* C22 witness: a document scored against two rules for its vendor, of
\* which only the second has a keyword in its text
C22_Witness ==
  /\ pc[Agent] = "proc_route"
  /\ Len(VendorRules(inv, LoadedRules)) = 2
  /\ KeywordsMatch(inv, LoadedRules)
  /\ ~KeywordsMatchFirst(inv, LoadedRules)

\* rule i of the loaded rules is for the invoice's vendor, ignoring case
ForVendor(i) == Lower(LoadedRules[i].vendor) = Lower(inv.vendor)

\* the vendor name, a space and the raw text, in lower case
VendorAndText == Lower(inv.vendor \o <<" ">> \o inv.raw_text)

\* some keyword of rule i occurs in the vendor name and text, ignoring case
KeywordOccurs(i) ==
  \E k \in DOMAIN LoadedRules[i].keywords :
    Contains(VendorAndText, Lower(LoadedRules[i].keywords[k]))

\* the four bonuses as C23 words them
VendorBonus == \E i \in DOMAIN LoadedRules : ForVendor(i)

KeywordBonus == \E i \in DOMAIN LoadedRules : ForVendor(i) /\ KeywordOccurs(i)

AmountBonus ==
  /\ VendorBonus
  /\ MLeq(MFromDigits(<<1, 0, 0>>), inv.amount)
  /\ MLeq(inv.amount, MFromDigits(<<1, 0, 0, 0, 0, 0, 0>>))

TdsBonus ==
  LET rate == TdsRate(GuessCategory(inv.raw_text))
  IN  IF inv.tds_percentage = Absent
        THEN rate = 0
        ELSE /\ inv.tds_percentage[1] - rate <= 10
             /\ rate - inv.tds_percentage[1] <= 10

\* x + bonus if awarded, else x
Plus(x, awarded, bonus) == IF awarded THEN FAdd(x, bonus) ELSE x

StillStored(r, g) ==
  \E j \in DOMAIN g.rules :
    /\ [g.rules[j] EXCEPT !.applied_count = r.applied_count] = r
    /\ g.rules[j].applied_count >= r.applied_count

\* C24: no operation on the store removes a stored rule, changes a field
\* of it other than applied_count, or lowers its applied_count, and the
\* number of rules never decreases: it holds of every step a thread of the
\* program takes (the steps that move its pc).
C24_RulesNeverLost ==
  [][pc' # pc =>
       /\ \A i \in DOMAIN file.rules : StillStored(file.rules[i], file')
       /\ Len(file'.rules) >= Len(file.rules)]_vars

\* C24 witness: with two rules in the store, one thread is inside save_rule
\* for a vendor the store does not know and another one inside
\* increment_usage for a vendor it knows, both past their first steps
C24_Witness ==
  \E w1, w2 \in Workers :
    /\ file.kind = "list"
    /\ Len(file.rules) >= 2
    /\ pc[w1] = "load_acquire" /\ caller[w1] = "save"
    /\ RulesFor(file, arg[w1].vendor) = {}
    /\ pc[w2] = "incr_acquire"
    /\ RulesFor(file, varg[w2]) # {}


\* C25: every learning event appends one entry to the Pattern Index: the
\* learning step of a document gets past its save_rule call (agent.py:270),
\* after which add_pattern (agent.py:273) is called for the document.
C25_LearningEventAddsPattern ==
  (pc[Agent] = "proc_learn")
  ~> (asked /\ pc[Agent] # "proc_learn" /\ ~InSave(Agent))


C27_ExtractNeverRaises == outcome # "ValidationError"


\* C28: a reviewer who cancels the prompt does not end the process: the
\* resolver answers other and process_invoice goes on to its USER_CONFIRMED
\* Transaction.
C28_CancelDoesNotTerminate == pc[Agent] # "exited"


\* w is inside find_matching
InFind(w) ==
  \/ pc[w] = "find_scan"
  \/ pc[w] \in {"load_acquire", "load_read"} /\ caller[w] = "find"

\* rule r has the vendor v, ignoring case
HasVendor(r, v) == Lower(r.vendor) = Lower(v)

\* at least two of the query keywords kws equal keywords of rule r,
\* ignoring case
TwoKeywordsOf(kws, r) ==
  \E i, j \in DOMAIN kws :
    /\ i # j
    /\ \E k \in DOMAIN r.keywords : Lower(kws[i]) = Lower(r.keywords[k])
    /\ \E k \in DOMAIN r.keywords : Lower(kws[j]) = Lower(r.keywords[k])

\* C29: find_matching(vendor, keywords), on the rules it loaded: if one of
\* them has the query vendor ignoring case, a rule with that vendor is
\* returned whatever the keywords; otherwise a rule is returned only if
\* keywords were given and at least 2 of them are keywords of that rule;
\* otherwise none is returned.  No step of the call changes the store.
C29_FindMatching ==
  /\ [][(pc[Agent] = "find_scan" /\ pc'[Agent] = "idle") =>
          LET rules == result[Agent].value
              found == result'[Agent].value
          IN  /\ result'[Agent].op = "find"
              /\ result'[Agent].kind = "returned"
              /\ \A i \in DOMAIN found : \E k \in DOMAIN rules : found[i] = rules[k]
              /\ IF \E k \in DOMAIN rules : HasVendor(rules[k], varg[Agent])
                   THEN found # << >> /\ HasVendor(found[1], varg[Agent])
                   ELSE found # << >> =>
                          /\ karg[Agent] # << >>
                          /\ TwoKeywordsOf(karg[Agent], found[1])]_vars
  /\ [][((InFind(Agent) \/ InFind(Agent)') /\ pc' # pc) => file' = file]_vars

\* C29 witness: find_matching has returned a rule of another vendor, found
\* by its keywords
C29_Witness ==
  /\ pc[Agent] = "idle"
  /\ result[Agent].op = "find"
  /\ result[Agent].value # << >>
  /\ ~HasVendor(result[Agent].value[1], varg[Agent])


\* C30: increment_usage(vendor) on a store holding one rule, whose vendor
\* is the argument ignoring case, returns with that rule's applied_count
\* raised by 1 and nothing else changed (unless rules.json is deleted from
\* outside meanwhile).
C30_IncrementUsage ==
  (pc[Agent] = "incr_acquire" /\ file = RulesFile(<<RuleAcme>>)
     /\ HasVendor(RuleAcme, varg[Agent]))
  ~> \/ /\ ~InIncr(Agent)
        /\ file = RulesFile(<<[RuleAcme EXCEPT !.applied_count = @ + 1]>>)
     \/ file.kind = "missing"


\* the order in which guess_category tries the categories
CategoryOrder == <<"rent", "consultancy", "salary", "contract">>

\* a keyword of category c occurs in text, ignoring the case of the text
KeywordOfOccurs(c, text) ==
  \E i \in DOMAIN CATEGORY_KEYWORDS :
    /\ CATEGORY_KEYWORDS[i].category = c
    /\ \E k \in DOMAIN CATEGORY_KEYWORDS[i].keywords :
         Contains(Lower(text), CATEGORY_KEYWORDS[i].keywords[k])

\* C31: the category guess_category gives to an AUTO document is the first
\* of rent, consultancy, salary, contract with a keyword in the text
\* ignoring case, and SUSPENSE when no category has one; it is determined
\* by the text alone.
C31_GuessCategory ==
  (pc[Agent] = "idle" /\ outcome = "returned" /\ route = <<"AUTO">>) =>
    IF \E k \in DOMAIN CategoryOrder : KeywordOfOccurs(CategoryOrder[k], inv.raw_text)
      THEN \E k \in DOMAIN CategoryOrder :
             /\ category = CategoryOrder[k]
             /\ KeywordOfOccurs(category, inv.raw_text)
             /\ \A j \in 1 .. (k - 1) : ~KeywordOfOccurs(CategoryOrder[j], inv.raw_text)
      ELSE category = "SUSPENSE"

\* C31 witness: an AUTO document whose text has keywords of two categories,
\* the later category's keyword coming first in the text
C31_Witness ==
  /\ pc[Agent] = "idle" /\ outcome = "returned" /\ route = <<"AUTO">>
  /\ inv.raw_text = TPayrollFees
  /\ KeywordOfOccurs("salary", inv.raw_text)
  /\ category = "consultancy"


\* C32: chunk_text terminates, whatever the text and the configuration with
\* 0 <= chunk_overlap < chunk_size, and returns chunks whose chunk_index
\* values are 0, 1, 2, ... in order, at least two of them for a text longer
\* than chunk_size.
C32_ChunkTextTerminates ==
  (chunker.pc = "loop")
  ~> (/\ chunker.pc = "done"
      /\ \A i \in DOMAIN chunker.chunks_metadata :
           chunker.chunks_metadata[i].chunk_index = i - 1
      /\ Len(chunker.text) > chunker.chunk_size =>
           Len(chunker.chunks_metadata) >= 2)


\* the records of the rules file f that pass Rule validation, by position
WellFormedAt(f) == {i \in DOMAIN f.rules : ValidRule(f.rules[i])}

\* C33: load_rules on a file holding several records, some of them
\* malformed, does not raise and returns exactly the well-formed records,
\* in file order: the k-th well-formed record of the file is the k-th rule
\* returned.
C33_LoadSkipsMalformed ==
  [][\A w \in Workers :
       (pc[w] = "load_read" /\ pc'[w] # "load_read" /\ file.kind = "list") =>
         /\ result'[w].op = "load"
         /\ result'[w].kind = "returned"
         /\ Len(result'[w].value) = Cardinality(WellFormedAt(file))
         /\ \A i \in WellFormedAt(file) :
              result'[w].value[Cardinality({j \in WellFormedAt(file) : j <= i})]
                = file.rules[i]]_vars

\* C33 witness: a load has returned the two well-formed records of a file
\* of three, whose second record is malformed
C33_Witness ==
  \E w \in Workers :
    /\ pc[w] = "idle"
    /\ result[w].op = "load"
    /\ Len(result[w].value) = 2
    /\ file.kind = "list"
    /\ Len(file.rules) = 3
    /\ ~ValidRule(file.rules[2])
    /\ result[w].value = <<file.rules[1], file.rules[3]>>


\* C34: in every learning step the Transaction is built first, then
\* save_rule is called with a rule for the invoice's vendor whose
\* applied_count is 1, and after save_rule has returned add_pattern is
\* called (agent.py:273); add_pattern is never called before save_rule.
C34_LearningOrder ==
  /\ [][(pc[Agent] = "proc_learn" /\ pc'[Agent] # "proc_learn") =>
          /\ txn # Absent
          /\ txn[1].status = "USER_CONFIRMED"
          /\ pc'[Agent] = "save_acquire"
          /\ arg'[Agent].vendor = inv.vendor
          /\ arg'[Agent].applied_count = 1]_vars
  /\ (pc[Agent] = "save_acquire" /\ asked)
       ~> (pc[Agent] \notin {"save_acquire", "save_locked", "load_acquire", "load_read"})


\* s without the repetitions of its elements, each kept where it first
\* occurs
RECURSIVE Dedup(_)
Dedup(s) ==
  IF s = << >> THEN << >>
  ELSE LET rest == Dedup(SubSeq(s, 1, Len(s) - 1))
       IN  IF \E i \in DOMAIN rest : rest[i] = s[Len(s)]
             THEN rest ELSE Append(rest, s[Len(s)])

\* the lower-cased alphabetic tokens of at least 3 characters of text
TextTokens(text) ==
  SelectSeq(Split(Lower(text)), LAMBDA word : Len(word) >= 3 /\ IsAlpha(word))

\* the keywords that text and cat determine: the category's list followed
\* by the tokens of the text, deduplicated, cut to 5
DerivedKeywords(text, cat) ==
  LET all == Dedup(CategoryKeywords(cat) \o TextTokens(text))
  IN  SubSeq(all, 1, Min(5, Len(all)))

\* C35: the keywords of a learning step are at most 5, pairwise distinct,
\* each a keyword of the chosen category's list or a lower-cased alphabetic
\* token of at least 3 characters of raw_text, and they are determined by
\* raw_text and the category: the same keywords on every run.
C35_KeywordsDerived ==
  [][(pc[Agent] = "proc_learn" /\ pc'[Agent] = "save_acquire") =>
       LET kws == arg'[Agent].keywords
       IN  /\ Len(kws) <= 5
           /\ \A i, j \in DOMAIN kws : kws[i] = kws[j] => i = j
           /\ \A i \in DOMAIN kws :
                \/ \E k \in DOMAIN CategoryKeywords(category) :
                     kws[i] = CategoryKeywords(category)[k]
                \/ \E k \in DOMAIN TextTokens(inv.raw_text) :
                     kws[i] = TextTokens(inv.raw_text)[k]
           /\ Range(kws) = Range(DerivedKeywords(inv.raw_text, category))]_vars


\* C36: the tds_applicable flag of the Rule handed to save_rule agrees with
\* the Transaction emitted for the same document: it is true exactly when
\* that Transaction carries a tds_amount, whichever of rent, consultancy,
\* salary, contract and other the reviewer chose.
C36_TdsFlagAgrees ==
  [][(pc[Agent] = "proc_learn" /\ pc'[Agent] = "save_acquire") =>
       /\ txn # Absent
       /\ arg'[Agent].tds_applicable <=> (txn[1].tds_amount # Absent)]_vars


\* C37: the confidence recorded on an emitted Transaction is the
\* classification confidence the scorer computed for the document: an
\* AUTO_POSTED Transaction carries at least 0.75, and the Transaction of a
\* document routed to MANUAL by a LOW confidence carries less than 0.50.
C37_TransactionConfidence ==
  txn # Absent =>
    /\ txn[1].confidence = conf
    /\ txn[1].status = "AUTO_POSTED" =>
         FLeq(CONFIDENCE_HIGH, txn[1].confidence)
    /\ (txn[1].status = "USER_CONFIRMED" /\ Tier(conf) = "MANUAL") =>
         ~ FLeq(CONFIDENCE_MEDIUM, txn[1].confidence)


\* C38: in the orchestrator files_processed always equals auto_posted +
\* user_confirmed + pattern_matched, and every file handed to _process_file
\* increments exactly one of files_processed and errors: the call returns
\* to run(), and when it does one of the two counters has gone up by one.
C38_StatsAccount ==
  /\ [](orch.stats.files_processed =
          orch.stats.auto_posted + orch.stats.user_confirmed
            + orch.stats.pattern_matched)
  /\ [][(orch.pc = "call" /\ orch'.pc \in {"scan", "files"}) =>
          orch'.stats.files_processed + orch'.stats.errors =
            orch.stats.files_processed + orch.stats.errors + 1]_vars
  /\ (orch.pc = "call") ~> (orch.pc \in {"scan", "files"})


\* the files of the list fs
FilesOf(fs) == {fs[i] : i \in DOMAIN fs}

\* C39: within one session a file content, identified by its SHA-256 hash,
\* is handed to _process_file at most once across all scans, also when
\* processing it failed and the file stayed in the inbox; and a scan
\* returns every inbox file whose hash has not been seen before: the file
\* itself or, when several files of the inbox share the new content, the
\* one of them that the scan met first.
C39_ContentHandedOnce ==
  /\ [](\A h \in Hashes : orch.handed[h] <= 1)
  /\ []((orch.pc = "scan"
          /\ \E f \in orch.inbox : FileHash(f) \notin orch.processed_hashes)
        => ENABLED (/\ \E files \in ScanOrders(orch.inbox) : OrchScan(files)
                    /\ orch'.pc = "files"))
  /\ [][(orch.pc = "scan" /\ orch'.pc = "files") =>
          /\ \A f \in orch.inbox :
               FileHash(f) \notin orch.processed_hashes =>
                 \E g \in FilesOf(orch'.new_files) : FileHash(g) = FileHash(f)
          /\ \A g \in FilesOf(orch'.new_files) :
               g \in orch.inbox /\ FileHash(g) \notin orch.processed_hashes
          /\ \A i, j \in DOMAIN orch'.new_files :
               FileHash(orch'.new_files[i]) = FileHash(orch'.new_files[j])
                 => i = j
          /\ \A f \in orch.inbox : FileHash(f) \in orch'.processed_hashes]_vars

\* the processing of a *.txt file has failed and the file is still in the
\* inbox, beside a second file of the same content; a later scan has
\* returned neither of them but a *.pdf file, which is being processed
C39_Witness ==
  /\ orch.pc = "call"
  /\ orch.current.name \in PdfNames
  /\ orch.stats.errors > 0
  /\ \E f, g \in orch.inbox :
       /\ f # g
       /\ f.name \in TxtNames /\ g.name \in TxtNames
       /\ FileHash(f) = FileHash(g)
       /\ orch.handed[FileHash(f)] = 1
       /\ FileHash(orch.current) # FileHash(f)


\* C40: after learn_from_correction(vendor, correction) the learned rules
\* hold exactly one rule for that vendor, the one of the latest correction;
\* and every later process_document whose extracted vendor name is that
\* vendor is classified with that rule's debit and credit accounts at
\* confidence 0.99, is not flagged needs_review and retrieves no context.
C40_LearnedRuleApplies ==
  /\ [](\A v \in RagVendors :
         rag.latest[v] # Absent =>
           /\ Cardinality(LearnedFor(rag.learned_rules, v)) = 1
           /\ \A r \in LearnedFor(rag.learned_rules, v) :
                /\ r.debit_account = rag.latest[v][1].debit_account
                /\ r.debit_code = rag.latest[v][1].debit_code
                /\ r.credit_account = rag.latest[v][1].credit_account
                /\ r.credit_code = rag.latest[v][1].credit_code)
  /\ [][(rag'.documents # rag.documents
          /\ rag'.doc[1].vendor_name \in RagVendors
          /\ rag.latest[rag'.doc[1].vendor_name] # Absent) =>
         LET d == rag'.doc[1]
             correction == rag.latest[d.vendor_name][1]
         IN  /\ d.ledger_classification.debit_account = correction.debit_account
             /\ d.ledger_classification.credit_account = correction.credit_account
             /\ d.ledger_classification.confidence = LearnedRuleConfidence
             /\ d.status # "needs_review"
             /\ ~ d.retrieved]_vars

\* a document of a vendor that was corrected more than once has been
\* processed and classified with the accounts of the latest correction
C40_Witness ==
  /\ rag.doc # Absent
  /\ rag.doc[1].vendor_name \in rag.relearnt
  /\ rag.doc[1].outcome = "returned"
  /\ rag.doc[1].ledger_classification.confidence = LearnedRuleConfidence
  /\ rag.doc[1].ledger_classification.debit_account =
       rag.latest[rag.doc[1].vendor_name][1].debit_account
  /\ \E v \in RagVendors \ rag.relearnt :
       rag.latest[v] # Absent /\ rag.latest[v] # rag.latest[rag.doc[1].vendor_name]

=============================================================================
